----------------------------- MODULE NodeParts -----------------------------
(***************************************************************************)
(* The parts of a node that share no state, checked side by side: a        *)
(* behaviour is one of the part it begins with, and the others keep their  *)
(* initial states.  "tiers" has no steps: it is about every contribution   *)
(* that a node may start with.                                             *)
(***************************************************************************)
EXTENDS ReplayGuard, NodeInbox, AppStore, Federation, Sessions, Supervisor,
        CapacityPlan, Discovery, Onebank, Topology

VARIABLE focus   \* the part that runs

Parts == {"replay", "inbox", "store", "federation", "session", "supervisor", "plan", "discovery",
          "bank", "tiers", "topology"}

partsVars ==
  <<focus, vars, inboxVars, storeVars, fedVars, sessionVars, supervisorVars, planVars, discoveryVars,
    bankVars, topologyVars>>

PartsInit ==
  /\ focus \in Parts
  /\ Init /\ InboxInit /\ StoreInit /\ FedInit /\ SessionInit /\ SupervisorInit
  /\ CapacityInit /\ DiscoveryInit /\ TopologyInit
  /\ BankInit /\ (focus = "tiers" \/ resources = NoResources)

\* The connection tasks push each message once.
InboxNext ==
  \/ \E m \in Messages : (\A i \in DOMAIN pushed : pushed[i] # m) /\ Push(m)
  \/ TakeQueue
  \/ ResetBytes

\* One action for each part: its step, while the others stand still.
Replays ==
  /\ focus = "replay" /\ Next
  /\ UNCHANGED <<focus, inboxVars, storeVars, fedVars, sessionVars, supervisorVars, planVars, discoveryVars,
                 bankVars, topologyVars>>

Receives ==
  /\ focus = "inbox" /\ InboxNext
  /\ UNCHANGED <<focus, vars, storeVars, fedVars, sessionVars, supervisorVars, planVars, discoveryVars,
                 bankVars, topologyVars>>

Installs ==
  /\ focus = "store" /\ StoreNext
  /\ UNCHANGED <<focus, vars, inboxVars, fedVars, sessionVars, supervisorVars, planVars, discoveryVars,
                 bankVars, topologyVars>>

Federates ==
  /\ focus = "federation" /\ FedNext
  /\ UNCHANGED <<focus, vars, inboxVars, storeVars, sessionVars, supervisorVars, planVars, discoveryVars,
                 bankVars, topologyVars>>

Talks ==
  /\ focus = "session" /\ SessionNext
  /\ UNCHANGED <<focus, vars, inboxVars, storeVars, fedVars, supervisorVars, planVars, discoveryVars,
                 bankVars, topologyVars>>

Supervises ==
  /\ focus = "supervisor" /\ SupervisorNext
  /\ UNCHANGED <<focus, vars, inboxVars, storeVars, fedVars, sessionVars, planVars, discoveryVars,
                 bankVars, topologyVars>>

Places ==
  /\ focus = "plan" /\ CapacityNext
  /\ UNCHANGED <<focus, vars, inboxVars, storeVars, fedVars, sessionVars, supervisorVars, discoveryVars,
                 bankVars, topologyVars>>

Discovers ==
  /\ focus = "discovery" /\ DiscoveryNext
  /\ UNCHANGED <<focus, vars, inboxVars, storeVars, fedVars, sessionVars, supervisorVars, planVars,
                 bankVars, topologyVars>>

Banks ==
  /\ focus = "bank" /\ BankNext
  /\ UNCHANGED <<focus, vars, inboxVars, storeVars, fedVars, sessionVars, supervisorVars, planVars, discoveryVars,
                 topologyVars>>

TopologyChanges ==
  /\ focus = "topology" /\ TopologyNext
  /\ UNCHANGED <<focus, vars, inboxVars, storeVars, fedVars, sessionVars, supervisorVars, planVars, discoveryVars,
                 bankVars>>

PartsNext ==
  \/ Replays \/ Receives \/ Installs \/ Federates
  \/ Talks \/ Supervises \/ Places \/ Discovers \/ Banks \/ TopologyChanges

\* The part of Discovers that a lookup does by itself.
Looks ==
  /\ focus = "discovery" /\ LookupStep
  /\ UNCHANGED <<focus, vars, inboxVars, storeVars, fedVars, sessionVars, supervisorVars, planVars,
                 bankVars, topologyVars>>

\* A lookup that can go on does: its tasks are polled, connections are opened
\* under a timeout and a node that is not silent answers.
PartsSpec ==
  /\ PartsInit /\ [][PartsNext]_partsVars
  /\ WF_discoveryVars(Looks)

-----------------------------------------------------------------------------
CONSTANTS m1, m2, m3, m4

MCSize == [m \in Messages |-> CASE m = m1 -> 1 [] m = m2 -> 2 [] m = m3 -> 3 [] m = m4 -> 5]

MCNeeds == [v \in Versions |-> Capabilities]

MCPostedResources ==
  {r \in Contributions : r.any = 1 /\ r.servers \in {0, 1} /\ \A f \in DOMAIN r \ {"any", "servers"} : r[f] = 0}

\* An old advertisement without addresses, and new ones that repeat one address
\* until their list is full.
MCAdvertised ==
  {Record({}, 0, 0)} \union {Record({a}, MaxAddresses - 1, Now) : a \in PeerAddresses}

MCImportFiles ==
  {[kind |-> "awenode", centres |-> {"d1"}, endpoints |-> {"e1"}],
   [kind |-> "awedc", centres |-> {"d2"}, endpoints |-> {"e2"}],
   [kind |-> "dgc", centres |-> {"d2", "d3"}, endpoints |-> {}]}
=============================================================================

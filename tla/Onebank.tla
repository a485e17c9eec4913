------------------------------ MODULE Onebank ------------------------------
(***************************************************************************)
(* The ONEBANK interface of awe-node: the declared resource contribution   *)
(* of a node, the tier that classify_tier gives it (core/src/onebank.rs),  *)
(* and the list of exchange offers.  Both are kept in JSON files that the  *)
(* handlers write in place: fs::write truncates a file and then fills it.  *)
(* Handlers run concurrently, and hold no lock while they touch the files. *)
(*                                                                         *)
(* A resource is the number of thresholds that it reaches: storage, cores  *)
(* and ram have those of NetPlus and NetPro, servers those of NetUltra,    *)
(* Pro, DataGroup and CentreGroup.  any says that some field is not zero.  *)
(* The casts to u32 and u16 happen before: what is declared beyond the     *)
(* width arrives here as some other contribution.                          *)
(***************************************************************************)
EXTENDS Integers, FiniteSets, SequencesExt

CONSTANTS
  Offers,            \* offers that are posted
  PostedResources,   \* contributions that are posted
  PostTasks,         \* requests in progress at once
  MaxPosts,          \* bound: posts
  TornBank           \* model value: a file that is cut short

Contributions ==
  {r \in [storage : 0..2, cores : 0..2, ram : 0..2, gpu : 0..1, bandwidth : 0..1,
          nodes : 0..1, servers : 0..4, any : 0..1] :
     r.any = 0 => \A f \in DOMAIN r : r[f] = 0}

ASSUME BankAssumption ==
  PostedResources \subseteq Contributions /\ TornBank \notin Contributions \union Seq(Offers)

VARIABLES
  resources,         \* the contribution in memory
  resourcesFile,     \* resource-contribution.json
  offersFile,        \* the list of offers
  posts,             \* [PostTasks -> {} or the file, the content and the step]
  answered,          \* history: offers whose post was answered
  disturbed,         \* history: files that may differ from what was answered
  postCount          \* bound

bankVars == <<resources, resourcesFile, offersFile, posts, answered, disturbed, postCount>>

NoResources == CHOOSE r \in Contributions : r.any = 0

BankInit ==
  /\ resources \in Contributions /\ resourcesFile = resources
  /\ offersFile = <<>>
  /\ posts = [t \in PostTasks |-> {}]
  /\ answered = {} /\ disturbed = {} /\ postCount = 0

(***************************************************************************)
(* Tiers                                                                   *)
(***************************************************************************)
UserTier == <<"Free", "Basic", "NetPlus", "NetPro", "NetUltra", "Pro", "DataGroup", "CentreGroup">>

Rank(tier) == CHOOSE i \in DOMAIN UserTier : UserTier[i] = tier

Equipped(r, level) == r.storage >= level /\ r.cores >= level /\ r.ram >= level

\* Fault: the hardware is looked at before the servers.
ClassifyHardwareFirst(r) ==
  IF Equipped(r, 2) /\ r.gpu >= 1 THEN "NetPro"
  ELSE IF r.servers >= 4 THEN "CentreGroup"
  ELSE IF r.servers >= 3 THEN "DataGroup"
  ELSE IF r.servers >= 2 THEN "Pro"
  ELSE IF r.nodes >= 1 \/ r.servers >= 1 THEN "NetUltra"
  ELSE IF Equipped(r, 1) /\ r.bandwidth >= 1 THEN "NetPlus"
  ELSE IF r.any >= 1 THEN "Basic"
  ELSE "Free"

\* The first test that holds decides.
ClassifyTier(r) ==
  IF r.servers >= 4 THEN "CentreGroup"
  ELSE IF r.servers >= 3 THEN "DataGroup"
  ELSE IF r.servers >= 2 THEN "Pro"
  ELSE IF r.nodes >= 1 \/ r.servers >= 1 THEN "NetUltra"
  ELSE IF Equipped(r, 2) /\ r.gpu >= 1 THEN "NetPro"
  ELSE IF Equipped(r, 1) /\ r.bandwidth >= 1 THEN "NetPlus"
  ELSE IF r.any >= 1 THEN "Basic"
  ELSE "Free"

\* TierBenefits::for_tier, without the amounts.
Rights(tier) ==
  {x[1] : x \in {y \in {<<"vps_24_7", "Basic">>,
                      <<"node_server_management", "NetPlus">>,
                      <<"data_centre_management", "NetUltra">>,
                      <<"data_group_management", "Pro">>,
                      <<"centre_group_management", "CentreGroup">>} : Rank(y[2]) <= Rank(tier)}}

(***************************************************************************)
(* The handlers                                                            *)
(***************************************************************************)
\* The requests in progress that write a file.
Posting(file) == {t \in PostTasks : \E p \in posts[t] : p.file = file}

BeginsPost(t, file, content, offer) ==
  /\ posts[t] = {} /\ postCount < MaxPosts
  /\ postCount' = postCount + 1
  /\ posts' = [posts EXCEPT ![t] = {[file |-> file, content |-> content, offer |-> offer, open |-> FALSE]}]

\* POST /api/onebank/contribution: memory changes at once, under its lock, and
\* keeps the new contribution when the write fails.  One that runs alone brings
\* file and memory together again.
PostContribution(t, r) ==
  /\ BeginsPost(t, "resources", r, {})
  /\ resources' = r
  /\ disturbed' = IF Posting("resources") = {} THEN disturbed \ {"resources"}
                  ELSE disturbed \union {"resources"}
  /\ UNCHANGED <<resourcesFile, offersFile, answered>>

\* Fault: the list is not read back.
ListedNone(file) == <<>>

\* A list that does not parse is taken for an empty one.
Listed(file) == IF file = TornBank THEN <<>> ELSE file

\* POST /api/onebank/exchange/offers: the list is read, as empty when the read
\* fails, and will be written with the offer at its end.
PostOffer(t, o, read) ==
  /\ BeginsPost(t, "offers", Append(IF read THEN Listed(offersFile) ELSE <<>>, o), {o})
  /\ disturbed' = IF read /\ Posting("offers") = {} THEN disturbed ELSE disturbed \union {"offers"}
  /\ UNCHANGED <<resources, resourcesFile, offersFile, answered>>

\* fs::write opens the file, which truncates it.
PostOpens(t, p) ==
  /\ ~p.open
  /\ posts' = [posts EXCEPT ![t] = {[p EXCEPT !.open = TRUE]}]
  /\ resourcesFile' = IF p.file = "resources" THEN TornBank ELSE resourcesFile
  /\ offersFile' = IF p.file = "offers" THEN TornBank ELSE offersFile
  /\ UNCHANGED <<resources, answered, disturbed, postCount>>

\* A file that another request filled in the meantime may keep a tail of it.
Filled(file, content) == IF file = TornBank THEN {content} ELSE {content, TornBank}

FileOf(p) == IF p.file = "resources" THEN resourcesFile ELSE offersFile

\* The request is over, and leaves its file with one of the contents.
PostEnds(t, p, contents) ==
  /\ posts' = [posts EXCEPT ![t] = {}]
  /\ resourcesFile' \in IF p.file = "resources" THEN contents ELSE {resourcesFile}
  /\ offersFile' \in IF p.file = "offers" THEN contents ELSE {offersFile}
  /\ UNCHANGED <<resources, postCount>>

PostFills(t, p) ==
  /\ p.open
  /\ PostEnds(t, p, Filled(FileOf(p), p.content))
  /\ answered' = answered \union p.offer
  /\ UNCHANGED disturbed

\* The write fails and the request is answered with an error.  A file that could
\* not be opened is as it was, but memory already has the new contribution.
PostRefused(t, p) ==
  /\ ~p.open
  /\ PostEnds(t, p, {FileOf(p)})
  /\ disturbed' = IF p.file = "resources" THEN disturbed \union {"resources"} ELSE disturbed
  /\ UNCHANGED answered

\* One that was truncated is left with a part of the content, or with nothing new.
PostFails(t, p) ==
  /\ p.open
  /\ PostEnds(t, p, {FileOf(p), TornBank})
  /\ disturbed' = disturbed \union {p.file}
  /\ UNCHANGED answered

\* The process ends and starts again, with the default for a file that cannot be
\* read or does not parse.
BankRestart(read) ==
  LET good == read /\ resourcesFile # TornBank
      cut == \E t \in PostTasks : \E p \in posts[t] : p.file = "offers" /\ p.open
  IN  /\ resources' = IF good THEN resourcesFile ELSE NoResources
      /\ posts' = [t \in PostTasks |-> {}]
      /\ disturbed' = {f \in {"offers", "resources"} :
                         IF f = "resources" THEN ~good ELSE cut \/ f \in disturbed}
      /\ UNCHANGED <<resourcesFile, offersFile, answered, postCount>>

BankNext ==
  \/ \E t \in PostTasks :
       \/ \E r \in PostedResources : PostContribution(t, r)
       \/ \E o \in Offers, read \in BOOLEAN : PostOffer(t, o, read)
       \/ \E p \in posts[t] : PostOpens(t, p) \/ PostFills(t, p) \/ PostRefused(t, p) \/ PostFails(t, p)
  \/ \E read \in BOOLEAN : BankRestart(read)

-----------------------------------------------------------------------------
\* Who contributes more is never ranked lower and loses no right: raising any one
\* resource by any one threshold moves classify_tier's answer up or leaves it,
\* over all combinations of the others, although its tests overlap.  The amounts
\* of a tier do not follow: NetPro and above have no monthly minimum.
TierMonotone ==
  \A f \in DOMAIN resources :
    LET more == [resources EXCEPT ![f] = @ + 1]
        old == ClassifyTier(resources)
        new == ClassifyTier(more)
    IN  more \in Contributions => Rank(old) <= Rank(new) /\ Rights(old) \subseteq Rights(new)

\* An offer that was answered stays in the list, and the contribution on disk is
\* the one in memory, while no request writes the file, as long as none of its
\* requests overlapped another, was cut, or failed to read or to write it: of two
\* posts of offers that overlap one is lost, and one that reads the list while
\* another has truncated it, or cannot read it, drops every earlier offer.  Even
\* then the list is cut short or ends with an offer that was answered: the last
\* post to write it is never the one that is lost.
AnsweredIsKept ==
  /\ "offers" \notin disturbed /\ Posting("offers") = {} => answered \subseteq ToSet(offersFile)
  /\ "resources" \notin disturbed /\ Posting("resources") = {} => resourcesFile = resources
  /\ answered # {} /\ offersFile # TornBank => offersFile # <<>> /\ Last(offersFile) \in answered
=============================================================================

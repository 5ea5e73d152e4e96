------------------------------ MODULE JobStore ------------------------------
(***************************************************************************)
(* What the database keeps of a job, across upgrades and restarts:         *)
(* store/migrations, which bring the schema of an older release up to date *)
(* at the start of the process; the switches of blockchain/common.go over  *)
(* the type of an endpoint, which check the parameters of a new job, file  *)
(* them and choose its subscriber; and the switch of store/database.go     *)
(* that finds them again.                                                  *)
(*                                                                         *)
(* The parameters of a job are the names of those that are given; a list   *)
(* of which the one element is empty, [""], is given and blank.  All jobs  *)
(* use one endpoint, which answers its test; EIService has what concurrent *)
(* requests and failing nodes make of the rows.                            *)
(***************************************************************************)
EXTENDS Naturals, Sequences

CONSTANTS
  Jobs,  \* job ids of the Chainlink node
  Urls,  \* bound: schemes an endpoint is given, of "" (or another one), "ws", "http"
  Blank  \* no row, no endpoint, no subscription

VARIABLES
  disk,      \* the schema: number of the migrations recorded, and what they have made
  work,      \* the same inside the transaction of Migrate
  doubled,   \* an older release has stored a job twice
  endpoint,  \* the endpoints row: type and scheme of its URL
  row,       \* row[j]: Blank, or the state of j's row and its row of parameters
  asked,     \* history: asked[j] is the type and the parameters j was created with
  watched,   \* watched[j]: what the subscriber of j filters by
  phase      \* "down", "migrate", "record", "load", "up"

schema  == <<disk, work, doubled>>
content == <<endpoint, row, asked>>
vars    == <<schema, content, watched, phase>>

-----------------------------------------------------------------------------
(* The migrations: the tables, columns and the index that each one makes    *)

Migration0 == {"subscriptions", "endpoints", "eth_subscriptions"}
Migration1576509489 == {"tezos_subscriptions"}
Migration1576783801 == {"substrate_subscriptions"}
Migration1582671289 == {"idx_job_id"}
Migration1587897988 == {"ont_subscriptions"}
Migration1592829052 == {"binance_smart_chain_subscriptions"}
Migration1594317706 == {"near_subscriptions"}
Migration1599849837 == {"cfx_subscriptions"}
Migration1603803454 == {"eth_call_subscriptions"}
Migration1605288480 == {"eth_call_subscriptions.return_type"}
Migration1608026935 == {"keeper_subscriptions"}
Migration1610281978 == {"bsn_irita_subscriptions"}
Migration1611169747 == {"keeper_subscriptions.from"}
Migration1613356332 == {"agoric_subscriptions"}
\* Mutant of Migration1614458183: the name of the table in its Rollback.
Migration1614458183Misnamed == {"zilliqa_subscriptions"}
Migration1614458183 == {"zil_subscriptions"}

Migrations ==
  <<Migration0, Migration1576509489, Migration1576783801, Migration1582671289,
    Migration1587897988, Migration1592829052, Migration1594317706, Migration1599849837,
    Migration1603803454, Migration1605288480, Migration1608026935, Migration1610281978,
    Migration1611169747, Migration1613356332, Migration1614458183>>

\* The schema after the first n of them.
After(n) == [ids |-> n, things |-> UNION {Migrations[k] : k \in 1..n}]

\* What cannot be made: a unique index over a job that is there twice, and the
\* one column that is added without asking whether it is there, and without a
\* default for the rows that are.
KeeperRows == {j \in Jobs : row[j] # Blank /\ row[j].table = "keeper_subscriptions"}
Impossible(thing) ==
  \/ thing = "idx_job_id" /\ doubled
  \/ thing = "keeper_subscriptions.from" /\ (KeeperRows # {} \/ thing \in work.things)

-----------------------------------------------------------------------------
(* blockchain/common.go                                                    *)

Blockchains ==
  {"ethereum", "harmony", "tezos", "substrate", "ontology", "binance-smart-chain", "near",
   "iotex", "conflux", "keeper", "bsn-irita", "agoric", "zilliqa"}

Params == {"addresses", "topics", "accountIds", "address", "upkeepId", "from", "serviceName"}

\* Sets of parameters of which one must be given.
\* Mutant of GetValidations: a NEAR job is asked for addresses.
GetValidationsOfAddresses(t) ==
  CASE t \in {"ethereum", "harmony", "iotex", "conflux"} -> {{"addresses", "topics"}}
    [] t \in {"tezos", "ontology", "binance-smart-chain", "bsn-irita", "zilliqa", "near"} ->
         {{"addresses"}}
    [] t = "substrate" -> {{"accountIds"}}
    [] t = "keeper" -> {{"address"}, {"upkeepId"}, {"from"}}
    [] t = "agoric" -> {}
GetValidations(t) ==
  CASE t \in {"ethereum", "harmony", "iotex", "conflux"} -> {{"addresses", "topics"}}
    [] t \in {"tezos", "ontology", "binance-smart-chain", "bsn-irita", "zilliqa"} ->
         {{"addresses"}}
    [] t \in {"substrate", "near"} -> {{"accountIds"}}
    [] t = "keeper" -> {{"address"}, {"upkeepId"}, {"from"}}
    [] t = "agoric" -> {}

\* Lengths are counted: [""] has one.
ValidateRequest(t, given) == \A fields \in GetValidations(t) : fields \cap given # {}

\* CreateSubscription: the table a job's parameters go to, and which of them.
Filed(t) ==
  CASE t \in {"ethereum", "harmony", "iotex"} -> "eth_subscriptions"
    [] t = "tezos" -> "tezos_subscriptions"
    [] t = "substrate" -> "substrate_subscriptions"
    [] t = "ontology" -> "ont_subscriptions"
    [] t = "binance-smart-chain" -> "binance_smart_chain_subscriptions"
    [] t = "near" -> "near_subscriptions"
    [] t = "conflux" -> "cfx_subscriptions"
    [] t = "keeper" -> "keeper_subscriptions"
    [] t = "bsn-irita" -> "bsn_irita_subscriptions"
    [] t = "agoric" -> "agoric_subscriptions"
    [] t = "zilliqa" -> "zil_subscriptions"

Tables == {Filed(t) : t \in Blockchains}

CreateSubscription(t, given) ==
  given \cap
  CASE t \in {"ethereum", "harmony", "iotex", "conflux"} -> {"addresses", "topics"}
    [] t \in {"tezos", "ontology", "binance-smart-chain"} -> {"addresses"}
    [] t \in {"substrate", "near"} -> {"accountIds"}
    [] t = "keeper" -> {"address", "upkeepId", "from"}
    [] t \in {"bsn-irita", "zilliqa"} -> {"addresses", "serviceName"}
    [] t = "agoric" -> {}

GetConnectionType(e) ==
  IF e.type \in {"tezos", "ontology", "iotex", "keeper", "bsn-irita"} THEN "client"
  ELSE IF e.url \in {"ws", "http"} THEN e.url
  ELSE "unknown"

\* The parameters of which one may be [""].
Lists == {"addresses", "topics", "accountIds"}

\* What the managers filter by besides: the job id, as a topic hard-set in place
\* of those of the request, or compared with the one in a request.
Fixed(t) == IF t \in {"ethereum", "keeper", "bsn-irita", "zilliqa"} THEN {} ELSE {"jobId"}

\* What they make no use of; createEthManager skips empty topics.
Ignored(t, blank) ==
  CASE t \in {"harmony", "iotex", "conflux"} -> {"topics"}
    [] t = "zilliqa" -> {"serviceName"}
    [] t = "ethereum" -> blank \cap {"topics"}
    [] OTHER -> {}

\* The filter of a subscriber.  A blank list of addresses or accounts is one
\* that matches nothing.
Watch(t, fields, blank) ==
  [type |-> t, filter |-> Fixed(t) \cup (fields \ Ignored(t, blank))]

\* createCfxManager panics on an address that is none; gin answers with 500.
Accepted(t, blank) == t = "conflux" => "addresses" \notin blank

\* getSubscriber finds a manager that accepts the connection.
HasSubscriber(e) ==
  /\ GetConnectionType(e) # "unknown"
  /\ e.type = "near" => e.url = "http"
  /\ e.type \in {"substrate", "agoric"} => e.url = "ws"
  /\ e.type = "keeper" => e.url \in {"ws", "http"}

-----------------------------------------------------------------------------
(* store/database.go                                                       *)

\* gorm leaves out a row of parameters in which none is given.  The column of
\* [""] is an empty line of CSV, of which nothing is read back.
StoredRow(t, fields, blank) ==
  [state |-> "live", table |-> IF fields = {} THEN "none" ELSE Filed(t), fields |-> fields \ blank]

\* What is kept of an endpoint, of a job, of its request and of its subscriber.
Endpoints == [type : Blockchains, url : Urls]
Stored    == [state : {"live", "deleted"}, table : Tables \cup {"none"}, fields : SUBSET Params]
Asking    == [type : Blockchains, fields : SUBSET Params, blank : SUBSET Lists]
Watching  == [type : Blockchains, filter : SUBSET (Params \cup {"jobId"})]

ASSUME StoreConstants == Blank \notin Endpoints \cup Stored \cup Asking

\* A job of type t, asked for with given, of which blank is blank.
Job(t, given, blank) ==
  LET fields == CreateSubscription(t, given)
  IN  [type |-> t, fields |-> fields, blank |-> blank \cap fields]

\* The jobs of a type for which a request is accepted.
Acceptable ==
  [t \in Blockchains |->
     {Job(t, given, blank) : given \in {g \in SUBSET Params : ValidateRequest(t, g)},
                             blank \in {b \in SUBSET Lists : Accepted(t, b)}}]

\* prepareSubscription: where it looks, and what it finds; a type that its
\* switch does not have gets a subscription without parameters.
\* Mutant of LookedUp: the case of iotex is missing.
LookedUpNoIotex(t) == IF t \in {"harmony", "iotex"} THEN "nowhere" ELSE Filed(t)
LookedUp(t) == IF t = "harmony" THEN "nowhere" ELSE Filed(t)

PrepareSubscription(j) ==
  IF LookedUp(endpoint.type) = "nowhere" THEN Watch(endpoint.type, {}, {})
  ELSE IF row[j].table = LookedUp(endpoint.type) THEN Watch(endpoint.type, row[j].fields, {})
  ELSE Blank

Live(j) == row[j] # Blank /\ row[j].state = "live"

-----------------------------------------------------------------------------
\* An older release has left its database, with jobs in a table that it had and
\* without the parameter for which it had no column.
Old(n, t) ==
  LET new == IF "keeper_subscriptions.from" \in After(n).things THEN {} ELSE {"from"}
  IN  {[job EXCEPT !.fields = @ \ new] : job \in Acceptable[t]}

Init ==
  /\ \E n \in 0..Len(Migrations) :
       /\ disk = After(n)
       /\ \/ endpoint = Blank /\ asked = [j \in Jobs |-> Blank]
          \/ \E t \in Blockchains, url \in Urls :
               /\ {"endpoints", Filed(t)} \subseteq disk.things
               /\ endpoint = [type |-> t, url |-> url]
               /\ asked \in [Jobs -> Old(n, t) \cup {Blank}]
  /\ work = disk
  /\ doubled \in BOOLEAN
  /\ doubled => "idx_job_id" \notin disk.things /\ \E j \in Jobs : asked[j] # Blank
  /\ row = [j \in Jobs |-> IF asked[j] = Blank THEN Blank
                            ELSE StoredRow(asked[j].type, asked[j].fields, asked[j].blank)]
  /\ watched = [j \in Jobs |-> Blank]
  /\ phase = "down"

-----------------------------------------------------------------------------
(* The start of the process: ConnectToDb, then Run                         *)

\* Somebody starts it; Migrate opens its transaction.
Start ==
  /\ phase = "down"
  /\ phase' = "migrate"
  /\ UNCHANGED <<schema, content, watched>>

Pending == work.ids < Len(Migrations)
Upcoming == Migrations[work.ids + 1]
Failing == phase = "migrate" /\ Pending /\ \E thing \in Upcoming : Impossible(thing)

\* The next migration runs ...
Migrate ==
  /\ phase = "migrate" /\ Pending /\ ~Failing
  /\ work' = [work EXCEPT !.things = @ \cup Upcoming]
  /\ phase' = "record"
  /\ UNCHANGED <<disk, doubled, content, watched>>

\* ... and its id is stored.
Record ==
  /\ phase = "record"
  /\ work' = [work EXCEPT !.ids = @ + 1]
  /\ phase' = "migrate"
  /\ UNCHANGED <<disk, doubled, content, watched>>

Commit ==
  /\ phase = "migrate" /\ ~Pending
  /\ disk' = work
  /\ phase' = "load"
  /\ UNCHANGED <<work, doubled, content, watched>>

\* LoadSubscriptions, and the subscriptions that Run makes of what it returns.
Load ==
  /\ phase = "load"
  /\ watched' = [j \in Jobs |->
       IF Live(j) /\ HasSubscriber(endpoint) THEN PrepareSubscription(j) ELSE Blank]
  /\ phase' = "up"
  /\ UNCHANGED <<schema, content>>

Ended(schemaLeft) ==
  /\ phase' = "down"
  /\ disk' = schemaLeft
  /\ work' = schemaLeft
  /\ watched' = [j \in Jobs |-> Blank]
  /\ UNCHANGED <<doubled, content>>

\* A migration fails: everything is rolled back, and main ends the process.
MigrateFails ==
  /\ Failing
  /\ Ended(disk)

\* near.go takes the first of its accounts, and panics if a job was loaded that
\* has none; Run is not a handler of gin.
Doomed == phase = "up" /\ \E j \in Jobs : watched[j] # Blank /\ watched[j].type = "near"
                                          /\ "accountIds" \notin watched[j].filter

NearPanics ==
  /\ Doomed
  /\ Ended(disk)

\* The process ends at any other point; so does its transaction.
\* Mutant of Kill: without UseTransaction, what was done stays done.
KillHalfway ==
  /\ phase # "down" /\ ~Failing /\ ~Doomed
  /\ Ended(work)
Kill ==
  /\ phase # "down" /\ ~Failing /\ ~Doomed
  /\ Ended(disk)

-----------------------------------------------------------------------------
(* Requests                                                                *)

\* POST /jobs; the index admits each job id once, deleted jobs included.
CreateJob(j, new) ==
  /\ phase = "up"
  /\ endpoint # Blank
  /\ new \in Acceptable[endpoint.type]
  /\ HasSubscriber(endpoint)
  /\ row[j] = Blank
  /\ row' = [row EXCEPT ![j] = StoredRow(new.type, new.fields, new.blank)]
  /\ asked' = [asked EXCEPT ![j] = new]
  /\ watched' = [watched EXCEPT ![j] = Watch(new.type, new.fields, new.blank)]
  /\ UNCHANGED <<schema, endpoint, phase>>

\* DELETE /jobs/:jobid; a job that is not subscribed must be one that loads.
DeleteJob(j) ==
  /\ phase = "up"
  /\ watched[j] # Blank \/ (Live(j) /\ PrepareSubscription(j) # Blank)
  /\ row' = [row EXCEPT ![j].state = "deleted"]
  /\ watched' = [watched EXCEPT ![j] = Blank]
  /\ UNCHANGED <<schema, endpoint, asked, phase>>

\* An argument of the command line, or POST /config: SaveEndpoint assigns what is
\* not empty.
SaveEndpoint(t, url) ==
  /\ phase \in {"load", "up"}
  /\ endpoint' = [type |-> t, url |-> IF url = "" /\ endpoint # Blank THEN endpoint.url ELSE url]
  /\ UNCHANGED <<schema, row, asked, watched, phase>>

-----------------------------------------------------------------------------
Starting == Start \/ Migrate \/ Record \/ Commit \/ Load \/ MigrateFails

Next ==
  \/ Starting
  \/ Kill
  \/ NearPanics
  \/ \E j \in Jobs :
       \/ DeleteJob(j)
       \/ \E t \in Blockchains : \E new \in Acceptable[t] : CreateJob(j, new)
  \/ \E t \in Blockchains, url \in Urls : SaveEndpoint(t, url)

Spec == Init /\ [][Next]_vars

\* Whenever the process is down it is started again, and it runs.
FairSpec == Spec /\ WF_vars(Starting)

-----------------------------------------------------------------------------
(* Properties                                                              *)

\* The process serves only on a schema that has the tables it files jobs in
\* and the index that admits a job once, and rows are in tables that exist.
SchemaServes ==
  /\ phase \in {"load", "up"} =>
       {"idx_job_id", "keeper_subscriptions.from"} \cup Tables \subseteq disk.things
  /\ \A j \in Jobs : row[j] # Blank => row[j].table \in disk.things \cup {"none"}

\* What a manager cannot do without: it compares accounts with those it is
\* given, or calls the contract of the upkeep.
Needed(t) ==
  CASE t \in {"tezos", "ontology", "bsn-irita", "zilliqa"} -> {"addresses"}
    [] t \in {"substrate", "near"} -> {"accountIds"}
    [] t = "keeper" -> {"address", "upkeepId", "from"}
    [] OTHER -> {}

\* No subscription hears everything on its chain, and none is deaf for want of a
\* parameter, whatever a request leaves out, whatever release filed it and
\* whatever the type of the endpoint becomes, unless the job was given a blank
\* list: validateRequest takes that for a parameter, [""] as topics is
\* skipped by createEthManager, and nothing of it is read back after a restart.
WatchesSomething ==
  \A j \in Jobs : watched[j] # Blank /\ asked[j].blank = {} =>
    /\ watched[j].filter # {}
    /\ Needed(watched[j].type) \subseteq watched[j].filter

\* What a start loads of a job filters as what the job was created with, unless
\* its endpoint was given another type, it was given a blank list, or it is of
\* agoric, which is not loaded, or harmony, whose addresses are not looked up.
Kept(j) ==
  /\ Live(j) /\ HasSubscriber(endpoint)
  /\ endpoint.type = asked[j].type /\ endpoint.type \notin {"agoric", "harmony"}
  /\ asked[j].blank = {}
LoadedAsCreated ==
  [][phase = "load" /\ phase' = "up" =>
       \A j \in Jobs : Kept(j) => watched'[j] = Watch(asked[j].type, asked[j].fields, {})]_vars

\* However often an upgrade is interrupted, the process serves in the end,
\* unless the data are in the way of a migration, or of a near job without
\* account, on which every start ends.
Blocked ==
  \/ doubled
  \/ KeeperRows # {} /\ "keeper_subscriptions.from" \notin disk.things
  \/ \E j \in Jobs : Live(j) /\ row[j].table = "near_subscriptions" /\ row[j].fields = {}
UpgradeEnds == <>[][~Kill]_vars => <>[](phase = "up" \/ Blocked)

-----------------------------------------------------------------------------
(* The inductive invariant of the proofs                                   *)

TypeOK ==
  /\ phase \in {"down", "migrate", "record", "load", "up"}
  /\ doubled \in BOOLEAN
  /\ endpoint \in Endpoints \cup {Blank}
  /\ row \in [Jobs -> Stored \cup {Blank}]
  /\ asked \in [Jobs -> Asking \cup {Blank}]
  /\ watched \in [Jobs -> Watching \cup {Blank}]

\* The schema is that of a release, the one in the transaction that of a later
\* one, and the process is past Migrate on that of the last.
SchemaOfRelease ==
  /\ disk.ids \in 0..Len(Migrations) /\ disk = After(disk.ids)
  /\ work.ids \in disk.ids..Len(Migrations)
  /\ IF phase = "record"
     THEN /\ Pending
          /\ work = [After(work.ids) EXCEPT !.things = After(work.ids + 1).things]
     ELSE work = After(work.ids)
  /\ phase \in {"load", "up"} => disk.ids = Len(Migrations)

\* A row has the parameters its job was created with, but for the blank ones, in
\* the table of their blockchain: those that its manager needs, all but those of
\* a keeper from before the column, which the migration does not pass.
RowsAsAsked ==
  \A j \in Jobs : row[j] # Blank =>
    /\ endpoint # Blank
    /\ asked[j] \in Asking
    /\ row[j].fields = asked[j].fields \ asked[j].blank
    /\ row[j].table = IF asked[j].fields = {} THEN "none" ELSE Filed(asked[j].type)
    /\ asked[j].fields = {} => asked[j].type = "agoric"
    /\ \/ Needed(asked[j].type) \subseteq asked[j].fields
       \/ asked[j].type = "keeper" /\ "keeper_subscriptions.from" \notin work.things \cup disk.things

\* Only a job that has a row is subscribed.
WatchedHasRow == \A j \in Jobs : watched[j] # Blank => row[j] # Blank

IInv ==
  /\ TypeOK
  /\ SchemaOfRelease
  /\ SchemaServes
  /\ RowsAsAsked
  /\ WatchedHasRow
  /\ WatchesSomething
=============================================================================

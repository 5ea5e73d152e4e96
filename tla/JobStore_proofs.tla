--------------------------- MODULE JobStore_proofs ---------------------------
(* Proofs about JobStore, for every set of jobs and of schemes of URLs.      *)
EXTENDS JobStore, TLAPS

-----------------------------------------------------------------------------
(* The migrations                                                          *)

LEMMA MigrationsCount == Len(Migrations) = 15
  BY DEF Migrations

\* What one more migration adds, and what stays.
LEMMA AfterNext ==
  ASSUME NEW n \in Nat
  PROVE  After(n + 1).things = After(n).things \cup Migrations[n + 1]
<1>1. 1..(n + 1) = 1..n \cup {n + 1}
  OBVIOUS
<1> DEFINE M == Migrations
<1> HIDE DEF M
<1>2. UNION {M[k] : k \in 1..n \cup {n + 1}} = (UNION {M[k] : k \in 1..n}) \cup M[n + 1]
  OBVIOUS
<1>3. After(n + 1).things = UNION {M[k] : k \in 1..n \cup {n + 1}}
  BY <1>1, Zenon DEF After, M
<1>4. After(n).things = UNION {M[k] : k \in 1..n}
  BY Zenon DEF After, M
<1>5. QED
  BY <1>2, <1>3, <1>4 DEF M

LEMMA AfterGrows ==
  ASSUME NEW m \in Nat, NEW n \in m..Len(Migrations)
  PROVE  After(m).things \subseteq After(n).things
<1> DEFINE M == Migrations
<1> HIDE DEF M
<1>1. 1..m \subseteq 1..n
  BY MigrationsCount
<1>2. UNION {M[k] : k \in 1..m} \subseteq UNION {M[k] : k \in 1..n}
  BY <1>1, Zenon
<1>3. QED
  BY <1>2 DEF After, M

LEMMA AfterMade ==
  ASSUME NEW n \in Nat, NEW k \in 1..n
  PROVE  Migrations[k] \subseteq After(n).things
<1> DEFINE M == Migrations
<1> HIDE DEF M
<1>1. M[k] \subseteq UNION {M[i] : i \in 1..n}
  BY Zenon
<1>2. QED
  BY <1>1 DEF After, M

\* The last release has every table that jobs are filed in, and the index.
LEMMA LastSchema ==
  {"idx_job_id", "keeper_subscriptions.from"} \cup Tables \subseteq After(Len(Migrations)).things
<1> DEFINE Things == After(15).things
<1> HIDE DEF Things
<1>1. Migrations[1] \subseteq Things /\ Migrations[2] \subseteq Things /\ Migrations[3] \subseteq Things
  BY AfterMade DEF Things
<1>2. Migrations[4] \subseteq Things /\ Migrations[5] \subseteq Things /\ Migrations[6] \subseteq Things
  BY AfterMade DEF Things
<1>3. Migrations[7] \subseteq Things /\ Migrations[8] \subseteq Things /\ Migrations[11] \subseteq Things
  BY AfterMade DEF Things
<1>4. Migrations[12] \subseteq Things /\ Migrations[13] \subseteq Things /\ Migrations[14] \subseteq Things
  BY AfterMade DEF Things
<1>5. Migrations[15] \subseteq Things
  BY AfterMade DEF Things
<1>6. {"eth_subscriptions", "tezos_subscriptions", "substrate_subscriptions", "idx_job_id"} \subseteq Things
  BY <1>1, <1>2 DEF Migrations, Migration0, Migration1576509489, Migration1576783801, Migration1582671289
<1>7. {"ont_subscriptions", "binance_smart_chain_subscriptions", "near_subscriptions",
       "cfx_subscriptions", "keeper_subscriptions"} \subseteq Things
  BY <1>2, <1>3 DEF Migrations, Migration1587897988, Migration1592829052, Migration1594317706,
                    Migration1599849837, Migration1608026935
<1>8. {"bsn_irita_subscriptions", "keeper_subscriptions.from", "agoric_subscriptions",
       "zil_subscriptions"} \subseteq Things
  BY <1>4, <1>5 DEF Migrations, Migration1610281978, Migration1611169747, Migration1613356332,
                    Migration1614458183
<1>9. \A t \in Blockchains : Filed(t) \in Things
  BY <1>6, <1>7, <1>8 DEF Filed, Blockchains
<1>10. QED
  BY <1>6, <1>8, <1>9, MigrationsCount DEF Things, Tables

-----------------------------------------------------------------------------
(* The switches over the type of an endpoint                               *)

\* A table has a name of its own, and all but harmony are looked up.
LEMMA TablesAreNamed ==
  ASSUME NEW t \in Blockchains
  PROVE  /\ Filed(t) \in Tables
         /\ Filed(t) # "none" /\ Filed(t) # "nowhere"
         /\ t # "harmony" => LookedUp(t) = Filed(t)
         /\ t = "harmony" => LookedUp(t) = "nowhere"
<1>1. Filed(t) \in Tables
  BY DEF Tables
<1>2. Filed(t) # "none" /\ Filed(t) # "nowhere"
  <2>1. CASE t \in {"ethereum", "harmony", "iotex"}
    BY <2>1 DEF Filed
  <2>2. CASE t \in {"tezos", "substrate", "ontology", "binance-smart-chain"}
    BY <2>2 DEF Filed
  <2>3. CASE t \in {"near", "conflux", "keeper"}
    BY <2>3 DEF Filed
  <2>4. CASE t \in {"bsn-irita", "agoric", "zilliqa"}
    BY <2>4 DEF Filed
  <2>5. QED
    BY <2>1, <2>2, <2>3, <2>4 DEF Blockchains
<1>3. QED
  BY <1>1, <1>2 DEF LookedUp

\* A request that is accepted leaves in the row what its manager needs.
LEMMA AcceptedHasParams ==
  ASSUME NEW t \in Blockchains, NEW given \in SUBSET Params, ValidateRequest(t, given)
  PROVE  /\ CreateSubscription(t, given) \in SUBSET Params
         /\ CreateSubscription(t, given) = {} => t = "agoric"
         /\ Needed(t) \subseteq CreateSubscription(t, given)
<1>1. CreateSubscription(t, given) \in SUBSET Params
  BY DEF CreateSubscription
<1>2. CASE t \in {"ethereum", "harmony", "iotex", "conflux"}
  BY <1>1, <1>2 DEF CreateSubscription, ValidateRequest, GetValidations, Needed
<1>3. CASE t = "binance-smart-chain"
  BY <1>1, <1>3 DEF CreateSubscription, ValidateRequest, GetValidations, Needed
<1>4. CASE t \in {"tezos", "ontology"}
  BY <1>1, <1>4 DEF CreateSubscription, ValidateRequest, GetValidations, Needed
<1>5. CASE t \in {"substrate", "near"}
  BY <1>1, <1>5 DEF CreateSubscription, ValidateRequest, GetValidations, Needed
<1>6. CASE t \in {"bsn-irita", "zilliqa"}
  BY <1>1, <1>6 DEF CreateSubscription, ValidateRequest, GetValidations, Needed
<1>7. CASE t = "keeper"
  BY <1>1, <1>7 DEF CreateSubscription, ValidateRequest, GetValidations, Needed
<1>8. CASE t = "agoric"
  BY <1>1, <1>8 DEF CreateSubscription, Needed
<1>9. QED
  BY <1>2, <1>3, <1>4, <1>5, <1>6, <1>7, <1>8 DEF Blockchains

LEMMA AcceptableJob ==
  ASSUME NEW t \in Blockchains, NEW new \in Acceptable[t]
  PROVE  /\ new \in Asking /\ new # Blank /\ new.type = t
         /\ new.fields = {} => t = "agoric"
         /\ Needed(t) \subseteq new.fields
<1>1. PICK given \in SUBSET Params, blank \in SUBSET Lists :
        ValidateRequest(t, given) /\ new = Job(t, given, blank)
  BY DEF Acceptable
<1>2. new = [type |-> t, fields |-> CreateSubscription(t, given),
             blank |-> blank \cap CreateSubscription(t, given)]
  BY <1>1 DEF Job
<1>3. QED
  BY <1>1, <1>2, AcceptedHasParams, StoreConstants DEF Asking

\* A blank list is one of the parameters of a job, and what is blank is no more
\* than that; the row of a job, and what its subscriber filters by.
LEMMA NewRow ==
  ASSUME NEW t \in Blockchains, NEW fields \in SUBSET Params, NEW blank \in SUBSET Lists
  PROVE  /\ StoredRow(t, fields, blank) \in Stored
         /\ StoredRow(t, fields, blank) # Blank
         /\ StoredRow(t, fields, blank).fields = fields \ blank
         /\ StoredRow(t, fields, blank).table = IF fields = {} THEN "none" ELSE Filed(t)
         /\ Watch(t, fields, blank) \in Watching
         /\ Watch(t, fields, blank).type = t
<1>1. StoredRow(t, fields, blank) \in Stored
  BY DEF StoredRow, Stored, Tables
<1>2. Watch(t, fields, blank) \in Watching
  BY DEF Watch, Watching, Fixed
<1>3. QED
  BY <1>1, <1>2, StoreConstants DEF StoredRow, Watch

LEMMA NewWatch ==
  ASSUME NEW t \in Blockchains, NEW fields \in SUBSET Params
  PROVE  Watch(t, fields, {}) \in Watching /\ Watch(t, fields, {}).type = t
<1>1. {} \in SUBSET Lists
  OBVIOUS
<1>2. QED
  BY <1>1, NewRow

\* What is needed of a filter: all that the manager needs, of ethereum anything.
LEMMA FilterOf ==
  ASSUME NEW t \in Blockchains, NEW fields \in SUBSET Params,
         fields = {} => t \notin {"ethereum", "keeper", "bsn-irita", "zilliqa"},
         Needed(t) \subseteq fields
  PROVE  /\ Watch(t, fields, {}).filter # {}
         /\ Needed(t) \subseteq Watch(t, fields, {}).filter
<1> DEFINE W == Watch(t, fields, {})
<1>1. W.filter = Fixed(t) \cup (fields \ Ignored(t, {}))
  BY DEF Watch
<1>2. CASE t = "ethereum"
  BY <1>1, <1>2 DEF Ignored, Needed
<1>3. CASE t \in {"keeper", "bsn-irita"}
  BY <1>1, <1>3 DEF Ignored, Needed
<1>4. CASE t = "zilliqa"
  BY <1>1, <1>4 DEF Ignored, Needed
<1>5. CASE t \in {"harmony", "iotex", "conflux"}
  BY <1>1, <1>5 DEF Fixed, Needed
<1>6. CASE t \in {"tezos", "substrate", "ontology", "binance-smart-chain", "near", "agoric"}
  BY <1>1, <1>6 DEF Fixed, Ignored
<1>7. QED
  BY <1>2, <1>3, <1>4, <1>5, <1>6 DEF Blockchains

-----------------------------------------------------------------------------
(* The initial states: what a release may have left                        *)

\* A job of an older release is one that it has accepted, though perhaps without
\* a parameter that is required now.
LEMMA OldJob ==
  ASSUME NEW n \in Nat, NEW t \in Blockchains, NEW job \in Old(n, t)
  PROVE  /\ job \in Asking /\ job # Blank /\ job.type = t
         /\ job.fields = {} => t = "agoric"
         /\ \/ Needed(t) \subseteq job.fields
            \/ t = "keeper" /\ "keeper_subscriptions.from" \notin After(n).things
<1> DEFINE new == IF "keeper_subscriptions.from" \in After(n).things THEN {} ELSE {"from"}
<1>1. PICK was \in Acceptable[t] : job = [was EXCEPT !.fields = @ \ new]
  BY DEF Old
<1>2. /\ was \in Asking /\ was.type = t
      /\ was.fields = {} => t = "agoric"
      /\ Needed(t) \subseteq was.fields
  BY <1>1, AcceptableJob
<1>3. job.type = t /\ job.fields = was.fields \ new /\ job \in Asking
  BY <1>1, <1>2 DEF Asking
<1>4. job # Blank
  BY <1>3, StoreConstants
<1>5. t # "keeper" => "from" \notin was.fields
  <2>1. PICK given \in SUBSET Params, blank \in SUBSET Lists : was = Job(t, given, blank)
    BY <1>1 DEF Acceptable
  <2>2. was.fields = CreateSubscription(t, given)
    BY <2>1 DEF Job
  <2>3. QED
    BY <2>2 DEF CreateSubscription, Blockchains
<1>6. t = "keeper" => job.fields # {}
  BY <1>2, <1>3 DEF Needed
<1>7. QED
  BY <1>2, <1>3, <1>4, <1>5, <1>6

LEMMA InitIInv == Init => IInv
<1> SUFFICES ASSUME Init PROVE IInv
  OBVIOUS
<1>1. PICK n \in 0..15 :
        /\ disk = After(n)
        /\ \/ endpoint = Blank /\ asked = [j \in Jobs |-> Blank]
           \/ \E t \in Blockchains, url \in Urls :
                /\ {"endpoints", Filed(t)} \subseteq disk.things
                /\ endpoint = [type |-> t, url |-> url]
                /\ asked \in [Jobs -> Old(n, t) \cup {Blank}]
  BY MigrationsCount DEF Init
<1>2. SchemaOfRelease
  <2>1. disk.ids = n
    BY <1>1 DEF After
  <2>2. QED
    BY <1>1, <2>1, MigrationsCount DEF Init, SchemaOfRelease
<1>3. phase = "down" /\ watched = [j \in Jobs |-> Blank] /\ doubled \in BOOLEAN
  BY Zenon DEF Init
<1>4. row = [j \in Jobs |-> IF asked[j] = Blank THEN Blank
                            ELSE StoredRow(asked[j].type, asked[j].fields, asked[j].blank)]
  BY DEF Init
<1>5. CASE endpoint = Blank /\ asked = [j \in Jobs |-> Blank]
  <2>1. row = [j \in Jobs |-> Blank]
    BY <1>4, <1>5
  <2>2. TypeOK
    BY <1>3, <1>5, <2>1 DEF TypeOK
  <2>3. QED
    BY <1>2, <1>3, <2>1, <2>2
       DEF IInv, SchemaServes, RowsAsAsked, WatchedHasRow, WatchesSomething
<1>6. ASSUME NEW t \in Blockchains, NEW url \in Urls,
             {"endpoints", Filed(t)} \subseteq disk.things,
             endpoint = [type |-> t, url |-> url],
             asked \in [Jobs -> Old(n, t) \cup {Blank}]
      PROVE  IInv
  <2>1. endpoint \in Endpoints /\ endpoint.type = t /\ endpoint # Blank
    BY <1>6, StoreConstants DEF Endpoints
  <2>2. ASSUME NEW j \in Jobs, asked[j] # Blank
        PROVE  /\ asked[j] \in Asking /\ asked[j].type = t
               /\ asked[j].fields = {} => t = "agoric"
               /\ \/ Needed(t) \subseteq asked[j].fields
                  \/ t = "keeper" /\ "keeper_subscriptions.from" \notin disk.things
               /\ row[j] \in Stored /\ row[j] # Blank
               /\ row[j].fields = asked[j].fields \ asked[j].blank
               /\ row[j].table = IF asked[j].fields = {} THEN "none" ELSE Filed(t)
    <3>1. asked[j] \in Old(n, t)
      BY <1>6, <2>2
    <3>2. /\ asked[j] \in Asking /\ asked[j].type = t
          /\ asked[j].fields = {} => t = "agoric"
          /\ \/ Needed(t) \subseteq asked[j].fields
             \/ t = "keeper" /\ "keeper_subscriptions.from" \notin After(n).things
      BY <3>1, OldJob
    <3>3. row[j] = StoredRow(t, asked[j].fields, asked[j].blank)
      BY <1>4, <2>2, <3>2
    <3>4. asked[j].fields \in SUBSET Params /\ asked[j].blank \in SUBSET Lists
      BY <3>2 DEF Asking
    <3>5. /\ row[j] \in Stored /\ row[j] # Blank
          /\ row[j].fields = asked[j].fields \ asked[j].blank
          /\ row[j].table = IF asked[j].fields = {} THEN "none" ELSE Filed(t)
      <4>1. ASSUME NEW f \in SUBSET Params, NEW b \in SUBSET Lists, row[j] = StoredRow(t, f, b)
            PROVE  /\ row[j] \in Stored /\ row[j] # Blank
                   /\ row[j].fields = f \ b
                   /\ row[j].table = IF f = {} THEN "none" ELSE Filed(t)
        BY <4>1, NewRow
      <4>2. QED
        BY <3>3, <3>4, <4>1
    <3>6. QED
      BY <1>1, <3>2, <3>5
  <2>3. \A j \in Jobs : row[j] # Blank <=> asked[j] # Blank
    BY <1>4, <2>2
  <2>4. TypeOK
    <3>1. row \in [Jobs -> Stored \cup {Blank}]
      BY <1>4, <2>2, <2>3
    <3>2. asked \in [Jobs -> Asking \cup {Blank}]
      BY <1>6, <2>2
    <3>3. QED
      BY <1>3, <2>1, <3>1, <3>2 DEF TypeOK
  <2>5. RowsAsAsked
    <3>1. work = disk
      BY DEF Init
    <3>2. QED
      BY <2>1, <2>2, <2>3, <3>1 DEF RowsAsAsked
  <2>6. SchemaServes
    BY <1>3, <1>6, <2>2, <2>3 DEF SchemaServes
  <2>7. QED
    BY <1>2, <1>3, <2>4, <2>5, <2>6 DEF IInv, WatchedHasRow, WatchesSomething
<1>7. QED
  BY <1>1, <1>5, <1>6

-----------------------------------------------------------------------------
(* The start of the process                                                *)

\* What a step must keep if it leaves rows and subscriptions alone.
LEMMA SameRows ==
  ASSUME IInv, UNCHANGED <<doubled, content, watched>>,
         phase' \in {"down", "migrate", "record", "load", "up"},
         SchemaOfRelease', disk.things \subseteq disk'.things,
         phase' \in {"load", "up"} => disk'.ids = Len(Migrations),
         KeeperRows = {} \/ ("keeper_subscriptions.from" \in work'.things \cup disk'.things
                              => "keeper_subscriptions.from" \in work.things \cup disk.things)
  PROVE  IInv'
<1>1. TypeOK'
  BY DEF IInv, TypeOK, content
<1>2. SchemaServes'
  <2>1. phase' \in {"load", "up"} => disk' = After(Len(Migrations))
    BY DEF SchemaOfRelease
  <2>2. QED
    BY <2>1, LastSchema DEF IInv, SchemaServes, content
<1>3. WatchedHasRow' /\ WatchesSomething'
  BY DEF IInv, WatchedHasRow, WatchesSomething, content
<1>4. ASSUME NEW j \in Jobs, row[j] # Blank, asked[j].type = "keeper"
      PROVE  KeeperRows # {}
  <2>1. row[j].table = "keeper_subscriptions"
    BY <1>4 DEF IInv, RowsAsAsked, Filed
  <2>2. QED
    BY <1>4, <2>1 DEF KeeperRows
<1>5. RowsAsAsked'
  BY <1>4 DEF IInv, RowsAsAsked, content
<1>6. QED
  BY <1>1, <1>2, <1>3, <1>5 DEF IInv

LEMMA StartStep == ASSUME IInv, Start PROVE IInv'
<1>1. SchemaOfRelease'
  BY DEF IInv, SchemaOfRelease, Start, schema, Pending
<1>2. QED
  BY <1>1, SameRows DEF Start, schema

LEMMA MigrateStep == ASSUME IInv, Migrate PROVE IInv'
<1>1. /\ work.ids \in Nat /\ work.ids \in disk.ids..Len(Migrations) /\ work.ids < Len(Migrations)
      /\ work = After(work.ids)
  BY MigrationsCount DEF IInv, SchemaOfRelease, Migrate, Pending
<1>2. work' = [After(work.ids) EXCEPT !.things = After(work.ids + 1).things]
  BY <1>1, AfterNext DEF Migrate, Upcoming
<1>3. work'.ids = work.ids
  BY <1>2 DEF After
<1>4. SchemaOfRelease'
  BY <1>1, <1>2, <1>3 DEF IInv, SchemaOfRelease, Migrate, Pending
<1>5. KeeperRows = {} \/ "keeper_subscriptions.from" \notin Upcoming
  BY DEF Migrate, Failing, Impossible
<1>6. /\ work'.things = work.things \cup Upcoming
      /\ UNCHANGED <<disk, doubled, content, watched>> /\ phase' = "record"
  BY <1>1 DEF Migrate, After
<1>7. QED
  BY <1>4, <1>5, <1>6, SameRows

LEMMA RecordStep == ASSUME IInv, Record PROVE IInv'
<1>1. /\ work.ids \in Nat /\ work.ids \in disk.ids..Len(Migrations) /\ work.ids < Len(Migrations)
      /\ work = [After(work.ids) EXCEPT !.things = After(work.ids + 1).things]
  BY MigrationsCount DEF IInv, SchemaOfRelease, Record, Pending
<1>2. work' = After(work.ids + 1) /\ work'.ids = work.ids + 1
  BY <1>1 DEF Record, After
<1>3. SchemaOfRelease'
  BY <1>1, <1>2, MigrationsCount DEF IInv, SchemaOfRelease, Record, Pending
<1>4. QED
  BY <1>3, SameRows DEF Record

LEMMA CommitStep == ASSUME IInv, Commit PROVE IInv'
<1>1. work.ids = Len(Migrations) /\ work = After(work.ids) /\ disk.ids \in 0..Len(Migrations)
  BY MigrationsCount DEF IInv, SchemaOfRelease, Commit, Pending
<1>2. SchemaOfRelease'
  BY <1>1, MigrationsCount DEF IInv, SchemaOfRelease, Commit, Pending
<1>3. disk = After(disk.ids)
  BY DEF IInv, SchemaOfRelease
<1>4. disk.things \subseteq disk'.things
  BY <1>1, <1>3, AfterGrows, MigrationsCount DEF Commit
<1>5. disk'.ids = Len(Migrations)
  BY <1>1 DEF Commit
<1>6. QED
  BY <1>2, <1>4, <1>5, SameRows DEF Commit

\* The process ends, and its transaction with it.
LEMMA EndStep == ASSUME IInv, Ended(disk) PROVE IInv'
<1>1. TypeOK'
  BY DEF IInv, TypeOK, Ended, content
<1>2. SchemaOfRelease'
  BY MigrationsCount DEF IInv, SchemaOfRelease, Ended, Pending
<1>3. SchemaServes'
  BY DEF IInv, SchemaServes, Ended, content
<1>4. RowsAsAsked'
  BY DEF IInv, RowsAsAsked, Ended, content
<1>5. WatchedHasRow' /\ WatchesSomething'
  BY DEF Ended, WatchedHasRow, WatchesSomething
<1>6. QED
  BY <1>1, <1>2, <1>3, <1>4, <1>5 DEF IInv

\* A table is that of one blockchain, or of the three that share one.
LEMMA TableTells ==
  ASSUME NEW t \in Blockchains, NEW u \in Blockchains, Filed(t) = Filed(u)
  PROVE  t = u \/ {t, u} \subseteq {"ethereum", "harmony", "iotex"}
<1>1. CASE t \in {"ethereum", "harmony", "iotex"}
  BY <1>1 DEF Filed, Blockchains
<1>2. CASE t \in {"tezos", "substrate", "ontology", "binance-smart-chain", "near"}
  BY <1>2 DEF Filed, Blockchains
<1>3. CASE t \in {"conflux", "keeper", "bsn-irita", "agoric", "zilliqa"}
  BY <1>3 DEF Filed, Blockchains
<1>4. QED
  BY <1>1, <1>2, <1>3 DEF Blockchains

\* What a subscription is made of: what is left of the parameters of the row, or
\* none at all for a type that prepareSubscription does not know.
LEMMA Prepared ==
  ASSUME IInv, NEW j \in Jobs, row[j] # Blank, PrepareSubscription(j) # Blank
  PROVE  /\ PrepareSubscription(j) \in Watching
         /\ asked[j].blank = {} /\ "keeper_subscriptions.from" \in disk.things =>
              /\ PrepareSubscription(j).filter # {}
              /\ Needed(PrepareSubscription(j).type) \subseteq PrepareSubscription(j).filter
<1>1. /\ row[j] \in Stored /\ endpoint \in Endpoints
      /\ row[j].fields \in SUBSET Params /\ endpoint.type \in Blockchains
      /\ asked[j] \in Asking /\ asked[j].type \in Blockchains
      /\ asked[j].fields \in SUBSET Params
  BY DEF IInv, TypeOK, RowsAsAsked, Stored, Endpoints, Asking
<1>2. CASE endpoint.type = "harmony"
  <2>1. PrepareSubscription(j) = Watch("harmony", {}, {})
    BY <1>1, <1>2, TablesAreNamed DEF PrepareSubscription
  <2>2. Needed("harmony") = {} /\ "harmony" \in Blockchains
    BY DEF Needed, Blockchains
  <2>3. {} \in SUBSET Params /\ Needed("harmony") \subseteq {}
    BY <2>2
  <2>4. /\ Watch("harmony", {}, {}) \in Watching
        /\ Watch("harmony", {}, {}).type = "harmony"
        /\ Watch("harmony", {}, {}).filter # {}
    BY <2>2, <2>3, NewWatch, FilterOf
  <2>5. QED
    BY <2>1, <2>2, <2>4
<1>3. CASE endpoint.type # "harmony"
  <2>1. LookedUp(endpoint.type) \notin {"none", "nowhere"} /\ LookedUp(endpoint.type) = Filed(endpoint.type)
    BY <1>1, <1>3, TablesAreNamed
  <2>2. /\ row[j].table = Filed(endpoint.type)
        /\ PrepareSubscription(j) = Watch(endpoint.type, row[j].fields, {})
    BY <2>1 DEF PrepareSubscription
  <2>3. PrepareSubscription(j) \in Watching /\ PrepareSubscription(j).type = endpoint.type
    BY <1>1, <2>2, NewWatch
  <2>4. asked[j].fields # {} /\ Filed(asked[j].type) = Filed(endpoint.type)
    BY <2>1, <2>2 DEF IInv, RowsAsAsked
  <2>5. ASSUME asked[j].blank = {}, "keeper_subscriptions.from" \in disk.things
        PROVE  row[j].fields # {} /\ Needed(endpoint.type) \subseteq row[j].fields
    <3>1. row[j].fields = asked[j].fields
      BY <2>5 DEF IInv, RowsAsAsked
    <3>2. Needed(asked[j].type) \subseteq asked[j].fields
      BY <2>5 DEF IInv, RowsAsAsked
    <3>3. Needed(endpoint.type) \subseteq Needed(asked[j].type)
      BY <1>1, <2>4, TableTells DEF Needed
    <3>4. QED
      BY <2>4, <3>1, <3>2, <3>3
  <2>6. QED
    BY <1>1, <2>2, <2>3, <2>5, FilterOf
<1>4. QED
  BY <1>2, <1>3

LEMMA LoadStep == ASSUME IInv, Load PROVE IInv'
<1>1. ASSUME NEW j \in Jobs, watched'[j] # Blank
      PROVE  /\ row[j] # Blank /\ watched'[j] \in Watching
             /\ asked[j].blank = {} =>
                  /\ watched'[j].filter # {}
                  /\ Needed(watched'[j].type) \subseteq watched'[j].filter
  <2>1. row[j] # Blank /\ watched'[j] = PrepareSubscription(j)
    BY <1>1 DEF Load, Live
  <2>2. "keeper_subscriptions.from" \in disk.things
    BY DEF IInv, SchemaServes, Load
  <2>3. QED
    BY <1>1, <2>1, <2>2, Prepared
<1>2. TypeOK'
  <2>1. watched' = [j \in Jobs |-> watched'[j]]
    BY DEF Load
  <2>2. watched' \in [Jobs -> Watching \cup {Blank}]
    BY <1>1, <2>1
  <2>3. QED
    BY <2>2 DEF IInv, TypeOK, Load, schema, content
<1>3. SchemaOfRelease' /\ SchemaServes'
  BY DEF IInv, SchemaOfRelease, SchemaServes, Load, schema, content, Pending
<1>4. RowsAsAsked'
  BY DEF IInv, RowsAsAsked, Load, schema, content
<1>5. WatchedHasRow' /\ WatchesSomething'
  BY <1>1 DEF WatchedHasRow, WatchesSomething, Load, content
<1>6. QED
  BY <1>2, <1>3, <1>4, <1>5 DEF IInv

-----------------------------------------------------------------------------
(* Requests                                                                *)

LEMMA CreateStep ==
  ASSUME IInv, NEW j \in Jobs, NEW t \in Blockchains, NEW new \in Acceptable[t], CreateJob(j, new)
  PROVE  IInv'
<1> DEFINE r == StoredRow(new.type, new.fields, new.blank)
           w == Watch(new.type, new.fields, new.blank)
<1>1. /\ new \in Asking /\ new # Blank /\ new.type = t
      /\ new.fields = {} => t = "agoric"
      /\ Needed(t) \subseteq new.fields
      /\ new.fields \in SUBSET Params /\ new.blank \in SUBSET Lists
  BY AcceptableJob DEF Asking
<1>2. /\ row' = [row EXCEPT ![j] = r]
      /\ asked' = [asked EXCEPT ![j] = new]
      /\ watched' = [watched EXCEPT ![j] = w]
      /\ UNCHANGED <<disk, work, doubled, endpoint, phase>>
      /\ phase = "up" /\ endpoint # Blank
  BY DEF CreateJob, schema
<1>3. /\ r \in Stored /\ r # Blank
      /\ r.fields = new.fields \ new.blank
      /\ r.table = IF new.fields = {} THEN "none" ELSE Filed(t)
      /\ w \in Watching /\ w.type = t
  BY <1>1, NewRow
<1>4. new.blank = {} => w.filter # {} /\ Needed(t) \subseteq w.filter
  BY <1>1, FilterOf
<1> HIDE DEF r, w
<1>5. TypeOK'
  BY <1>1, <1>2, <1>3 DEF IInv, TypeOK
<1>6. SchemaOfRelease'
  BY <1>2 DEF IInv, SchemaOfRelease, Pending
<1>7. SchemaServes'
  <2>1. Filed(t) \in disk.things
    BY <1>2, TablesAreNamed DEF IInv, SchemaServes
  <2>2. QED
    BY <1>2, <1>3, <2>1 DEF IInv, SchemaServes, TypeOK
<1>8. RowsAsAsked'
  BY <1>1, <1>2, <1>3 DEF IInv, RowsAsAsked, TypeOK
<1>9. WatchedHasRow'
  BY <1>2, <1>3 DEF IInv, WatchedHasRow, TypeOK
<1>10. WatchesSomething'
  BY <1>2, <1>3, <1>4 DEF IInv, WatchesSomething, TypeOK
<1>11. QED
  BY <1>5, <1>6, <1>7, <1>8, <1>9, <1>10 DEF IInv

LEMMA DeleteStep == ASSUME IInv, NEW j \in Jobs, DeleteJob(j) PROVE IInv'
<1>1. /\ row' = [row EXCEPT ![j].state = "deleted"]
      /\ watched' = [watched EXCEPT ![j] = Blank]
      /\ UNCHANGED <<disk, work, doubled, endpoint, asked, phase>>
      /\ row[j] # Blank
  BY DEF DeleteJob, schema, IInv, WatchedHasRow, Live
<1>2. /\ row'[j] \in Stored /\ row'[j] # Blank
      /\ row'[j].fields = row[j].fields /\ row'[j].table = row[j].table
  BY <1>1, StoreConstants DEF IInv, TypeOK, Stored
<1>3. TypeOK'
  BY <1>1, <1>2 DEF IInv, TypeOK
<1>4. SchemaOfRelease'
  BY <1>1 DEF IInv, SchemaOfRelease, Pending
<1>5. SchemaServes'
  BY <1>1, <1>2 DEF IInv, SchemaServes, TypeOK
<1>6. RowsAsAsked'
  BY <1>1, <1>2 DEF IInv, RowsAsAsked, TypeOK
<1>7. WatchedHasRow' /\ WatchesSomething'
  BY <1>1, <1>2 DEF IInv, WatchedHasRow, WatchesSomething, TypeOK
<1>8. QED
  BY <1>3, <1>4, <1>5, <1>6, <1>7 DEF IInv

LEMMA SaveStep ==
  ASSUME IInv, NEW t \in Blockchains, NEW url \in Urls, SaveEndpoint(t, url)
  PROVE  IInv'
<1>1. endpoint' \in Endpoints /\ endpoint' # Blank
  <2>1. endpoint # Blank => endpoint.url \in Urls
    BY DEF IInv, TypeOK, Endpoints
  <2>2. endpoint' \in Endpoints
    BY <2>1 DEF SaveEndpoint, Endpoints
  <2>3. QED
    BY <2>2, StoreConstants
<1>2. UNCHANGED <<disk, work, doubled, row, asked, watched, phase>>
  BY DEF SaveEndpoint, schema
<1>3. TypeOK' /\ RowsAsAsked'
  BY <1>1, <1>2 DEF IInv, TypeOK, RowsAsAsked
<1>4. SchemaOfRelease' /\ SchemaServes'
  BY <1>2 DEF IInv, SchemaOfRelease, SchemaServes, Pending
<1>5. WatchedHasRow' /\ WatchesSomething'
  BY <1>2 DEF IInv, WatchedHasRow, WatchesSomething
<1>6. QED
  BY <1>3, <1>4, <1>5 DEF IInv

-----------------------------------------------------------------------------
LEMMA StepIInv == IInv /\ [Next]_vars => IInv'
<1> SUFFICES ASSUME IInv, [Next]_vars PROVE IInv'
  OBVIOUS
<1>1. CASE Starting
  <2>1. MigrateFails => Ended(disk)
    BY DEF MigrateFails
  <2>2. QED
    BY <1>1, <2>1, StartStep, MigrateStep, RecordStep, CommitStep, LoadStep, EndStep DEF Starting
<1>2. CASE Kill \/ NearPanics
  BY <1>2, EndStep DEF Kill, NearPanics
<1>3. ASSUME NEW j \in Jobs, DeleteJob(j) PROVE IInv'
  BY <1>3, DeleteStep
<1>4. ASSUME NEW j \in Jobs, NEW t \in Blockchains, NEW new \in Acceptable[t], CreateJob(j, new)
      PROVE  IInv'
  BY <1>4, CreateStep
<1>5. ASSUME NEW t \in Blockchains, NEW url \in Urls, SaveEndpoint(t, url) PROVE IInv'
  BY <1>5, SaveStep
<1>6. CASE UNCHANGED vars
  BY <1>6 DEF vars, schema, content, IInv, TypeOK, SchemaOfRelease, SchemaServes, RowsAsAsked,
              WatchedHasRow, WatchesSomething, Pending
<1>7. QED
  BY <1>1, <1>2, <1>3, <1>4, <1>5, <1>6 DEF Next

\* The inductive invariant holds in every reachable state.
THEOREM Invariance == Spec => []IInv
  BY InitIInv, StepIInv, PTL DEF Spec

\* Type correctness.
THEOREM TypeCorrect == Spec => []TypeOK
<1>1. IInv => TypeOK
  BY DEF IInv
<1>2. QED
  BY <1>1, Invariance, PTL

\* Whatever release left the database, and however often an upgrade was
\* interrupted, the process serves on the whole schema.
THEOREM ServesOnWholeSchema == Spec => []SchemaServes
<1>1. IInv => SchemaServes
  BY DEF IInv
<1>2. QED
  BY <1>1, Invariance, PTL

\* No subscription hears everything on its chain or is deaf for want of a
\* parameter, unless its job was given a blank list.
THEOREM WatchedHasParams == Spec => []WatchesSomething
<1>1. IInv => WatchesSomething
  BY DEF IInv
<1>2. QED
  BY <1>1, Invariance, PTL

\* A start loads a job with the filter it was created with.
THEOREM LoadsWhatWasAsked == Spec => LoadedAsCreated
<1>1. ASSUME IInv, [Next]_vars, phase = "load", phase' = "up", NEW j \in Jobs, Kept(j)
      PROVE  watched'[j] = Watch(asked[j].type, asked[j].fields, {})
  <2>1. Load
    BY <1>1 DEF Next, Starting, Start, Migrate, Record, Commit, MigrateFails, NearPanics, Kill,
                Ended, Failing, DeleteJob, CreateJob, SaveEndpoint, vars
  <2>2. /\ row[j] # Blank /\ asked[j] \in Asking /\ asked[j].type = endpoint.type
        /\ endpoint.type \in Blockchains /\ endpoint.type \notin {"agoric", "harmony"}
        /\ asked[j].fields = row[j].fields
    BY <1>1 DEF Kept, Live, IInv, RowsAsAsked, Asking
  <2>3. row[j].table = Filed(endpoint.type)
    BY <1>1, <2>2 DEF IInv, RowsAsAsked
  <2>4. PrepareSubscription(j) = Watch(endpoint.type, row[j].fields, {})
    BY <2>2, <2>3, TablesAreNamed DEF PrepareSubscription
  <2>5. watched'[j] = PrepareSubscription(j)
    BY <1>1, <2>1 DEF Load, Kept
  <2>6. QED
    BY <2>2, <2>4, <2>5
<1>2. IInv /\ [Next]_vars =>
        (phase = "load" /\ phase' = "up" =>
           \A j \in Jobs : Kept(j) => watched'[j] = Watch(asked[j].type, asked[j].fields, {}))
  BY <1>1
<1>3. QED
  BY <1>2, Invariance, PTL DEF Spec, LoadedAsCreated
=============================================================================

--------------------------- MODULE PhotonMainProofs ---------------------------
(***************************************************************************)
(* Proofs about photon's main (PhotonMain), for every set of start slots,  *)
(* database slots and networks satisfying ConstantsAssumption.            *)
(***************************************************************************)
EXTENDS PhotonMain, BlockStreamProofs, TLAPS

\* The inductive invariant: the type, the schema property, and the two
\* facts about main's position it needs.  Before main spawns the indexer
\* nothing has been spawned, and once it has, the indexer's
\* last_indexed_slot is the one chosen from the arguments and the database; once it is past them, or anything
\* has been started, the temporary database has been migrated (a panic
\* in the migration itself stops main with nothing started).  And when
\* main is about to stop the API server, the indexer task has ended.
IInv ==
    /\ TypeOK
    /\ pc \in {"setup", "migrate", "indexer", "genesis"}
           => indexer = "none" /\ api = "none"
    /\ indexer # "none"
           => lastIndexedSlot = LastIndexedSlot(args.startSlot, dbResult, net)
    /\ args.dbUrl = "none"
       /\ (pc \notin {"setup", "migrate", "panicked"} \/ indexer # "none"
           \/ api # "none")
       => migrated
    /\ pc = "stop_api" => indexer \in {"none", "cancelled", "panicked"}

LEMMA InitIInv == Init => IInv
BY DEF Init, IInv, TypeOK

LEMMA NextIInv == IInv /\ [Next]_vars => IInv'
<1> SUFFICES ASSUME IInv, [Next]_vars PROVE IInv'
    OBVIOUS
<1> USE DEF IInv, TypeOK
<1>1. CASE SetupDatabaseConnection
      BY <1>1 DEF SetupDatabaseConnection, ParseDbType, DbUrls, Args
<1>2. CASE RunMigrations
      BY <1>2 DEF RunMigrations
<1>3. CASE SkipIndexer
      BY <1>3 DEF SkipIndexer
<1>4. CASE FetchLastIndexedSlot
      BY <1>4 DEF FetchLastIndexedSlot
<1>5. CASE SpawnIndexer
      <2>1. LastIndexedSlot(args.startSlot, dbResult, net) \in Nat
            BY ConstantsAssumption DEF LastIndexedSlot, GenesisStartSlot, Args,
               NoSlot
      <2> QED
          BY <1>5, <2>1 DEF SpawnIndexer
<1>6. CASE StartApiServer
      BY <1>6 DEF StartApiServer
<1>7. CASE AbortIndexer
      BY <1>7 DEF AbortIndexer
<1>8. CASE JoinIndexer
      BY <1>8 DEF JoinIndexer
<1>9. CASE StopApi
      BY <1>9 DEF StopApi
<1>10. CASE ExitMain
       BY <1>10 DEF ExitMain
<1>11. CASE ShutdownSignal
       BY <1>11 DEF ShutdownSignal
<1>12. CASE SignalListenError
       BY <1>12 DEF SignalListenError
<1>13. CASE IndexerCancelled
       BY <1>13 DEF IndexerCancelled
<1>14. CASE IndexerPanics
       BY <1>14 DEF IndexerPanics
<1>15. CASE ApiServerStopped
       BY <1>15 DEF ApiServerStopped
<1>16. CASE RpcRecovers
       BY <1>16 DEF RpcRecovers
<1>17. CASE UNCHANGED vars
       BY <1>17 DEF vars
<1>18. CASE MigrationsFail
       BY <1>18 DEF MigrationsFail
<1> QED
    BY <1>1, <1>2, <1>3, <1>4, <1>5, <1>6, <1>7, <1>8, <1>9, <1>10, <1>11,
       <1>12, <1>13, <1>14, <1>15, <1>16, <1>17, <1>18 DEF Next, MainStep

(***************************************************************************)
(* Every reachable state of photon's main is well typed.                  *)
(***************************************************************************)
THEOREM TypeCorrect == Spec => []TypeOK
<1>1. IInv => TypeOK
      BY DEF IInv
<1> QED
    BY InitIInv, NextIInv, <1>1, PTL DEF Spec

(***************************************************************************)
(* For every configuration, main migrates the temporary database it       *)
(* creates (no --db-url) before it spawns the indexer task or starts the  *)
(* API server: SchemaBeforeUse holds in every reachable state.            *)
(***************************************************************************)
THEOREM SchemaBeforeUseHolds == Spec => []SchemaBeforeUse
<1>1. IInv => SchemaBeforeUse
      BY DEF IInv, SchemaBeforeUse, TypeOK
<1> QED
    BY InitIInv, NextIInv, <1>1, PTL DEF Spec

(***************************************************************************)
(* The finding behind StartSlotStreamedFirst, for every chain and every   *)
(* configuration: when the indexer has a documented start (--start-slot,  *)
(* or the database's last indexed slot plus one) and some block follows  *)
(* it, the indexer's stream begins strictly after that slot, so a block   *)
(* at the documented start is never indexed.                              *)
(***************************************************************************)
THEOREM DocumentedStartSkipped ==
    Spec => [](/\ indexer # "none"
               /\ args.startSlot # NoSlot \/ dbResult # NoSlot
               /\ \E b \in Blocks : b > DocumentedStart
               => FirstStreamed(lastIndexedSlot) > DocumentedStart)
<1>1. ASSUME IInv, indexer # "none", args.startSlot # NoSlot \/ dbResult # NoSlot,
             \E b \in Blocks : b > DocumentedStart
      PROVE  FirstStreamed(lastIndexedSlot) > DocumentedStart
      <2>1. lastIndexedSlot = DocumentedStart
            BY <1>1 DEF IInv, LastIndexedSlot, DocumentedStart
      <2>2. DocumentedStart \in Int
            <3>1. args.startSlot \in {NoSlot} \cup StartSlots
                  /\ dbResult \in {NoSlot} \cup DbSlots
                  BY <1>1 DEF IInv, TypeOK, Args
            <3>2. CASE args.startSlot # NoSlot
                  <4>1. args.startSlot \in Nat
                        BY <3>1, <3>2, ConstantsAssumption
                  <4> QED
                      BY <3>2, <4>1 DEF DocumentedStart
            <3>3. CASE args.startSlot = NoSlot
                  <4>1. dbResult \in {-1} \cup Nat
                        BY <3>1, ConstantsAssumption DEF NoSlot
                  <4> QED
                      BY <3>3, <4>1 DEF DocumentedStart
            <3> QED
                BY <3>2, <3>3
      <2> QED
          BY <1>1, <2>1, <2>2, FirstStreamedAfter
<1>2. Spec => []IInv
      BY InitIInv, NextIInv, PTL DEF Spec
<1> QED
    BY <1>1, <1>2, PTL

=============================================================================

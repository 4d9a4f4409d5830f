------------------------------ MODULE PhotonMain ------------------------------
(***************************************************************************)
(* The photon binary's main (src/src/main.rs): database setup, migrations *)
(* of the temporary database, the choice of the indexer's                 *)
(* last_indexed_slot, the indexer task, the API server, and the shutdown  *)
(* on ctrl-c.  pc is main's position; indexer and api are the states of   *)
(* the spawned indexer task and of the jsonrpsee server; rpcUp and net    *)
(* are the RPC node the binary talks to.                                   *)
(***************************************************************************)
EXTENDS Integers, BlockStream

CONSTANTS
    StartSlots,   \* values of --start-slot
    DbSlots,      \* last indexed slots an existing database may hold
    Networks      \* the networks the RPC node may serve

ASSUME ConstantsAssumption ==
    /\ StartSlots \subseteq Nat
    /\ DbSlots \subseteq Nat
    /\ Networks \subseteq {"devnet", "mainnet", "other"}

\* --db-url: none (temporary SQLite), a postgres:// or sqlite:// URL, or
\* one of another scheme.
DbUrls == {"none", "postgres", "sqlite", "mysql"}

Args == [dbUrl : DbUrls, startSlot : {NoSlot} \cup StartSlots,
         disableIndexing : BOOLEAN, disableApi : BOOLEAN]

VARIABLES
    args,             \* the parsed command line
    net,              \* the network of the RPC node (its genesis hash)
    rpcUp,            \* whether the RPC node answers
    dbLast,           \* the last indexed slot the database holds
    pc,               \* where main is
    migrated,         \* Migrator::up has run
    dbResult,         \* what fetch_last_indexed_slot_with_infinite_retry returned
    lastIndexedSlot,  \* BlockStreamConfig.last_indexed_slot
    indexer,          \* the indexer task: none, running, aborting, cancelled, panicked
    api               \* the API server: none, running, stopping, stopped

vars == <<args, net, rpcUp, dbLast, pc, migrated, dbResult, lastIndexedSlot,
          indexer, api>>

Terminated == pc \in {"exited", "panicked"}

\* parse_db_type.
ParseDbType(url) ==
    CASE url = "postgres" -> "Postgres"
      [] url = "sqlite"   -> "Sqlite"
      [] OTHER            -> "unimplemented"

\* The slot the code assigns for each genesis hash.
GenesisStartSlot(network) ==
    CASE network = "devnet"  -> 310276132
      [] network = "mainnet" -> 277957074
      [] OTHER               -> 0

\* args.start_slot.unwrap_or((db.unwrap_or(genesis default) + 1) as u64).
LastIndexedSlot(startSlot, dbSlot, network) ==
    IF startSlot # NoSlot THEN startSlot
    ELSE (IF dbSlot # NoSlot THEN dbSlot ELSE GenesisStartSlot(network)) + 1

Init ==
    /\ args \in Args
    /\ net \in Networks
    /\ rpcUp \in BOOLEAN
    /\ dbLast \in {NoSlot} \cup DbSlots
    /\ pc = "setup"
    /\ migrated = FALSE
    /\ dbResult = NoSlot
    /\ lastIndexedSlot = NoSlot
    /\ indexer = "none"
    /\ api = "none"

\* A variant of the step below that does not migrate the temporary database.
SetupDatabaseConnectionNoMigrate ==
    /\ pc = "setup"
    /\ \/ /\ ParseDbType(args.dbUrl) \in {"Postgres", "Sqlite"}
          /\ pc' \in {"indexer", "panicked"}
          /\ UNCHANGED dbLast
       \/ /\ args.dbUrl # "none"
          /\ ParseDbType(args.dbUrl) = "unimplemented"
          /\ pc' = "panicked"
          /\ UNCHANGED dbLast
       \/ /\ args.dbUrl = "none"
          /\ dbLast' = NoSlot
          /\ pc' = "indexer"
    /\ UNCHANGED <<args, net, rpcUp, migrated, dbResult, lastIndexedSlot,
                   indexer, api>>

\* setup_database_connection: a URL of another scheme hits unimplemented!,
\* a failed connection hits unwrap; without a URL the temporary database
\* file is removed and created again (each step, and the connection, an
\* unwrap that may panic), and main runs the migrations.
SetupDatabaseConnection ==
    /\ pc = "setup"
    /\ \/ /\ ParseDbType(args.dbUrl) \in {"Postgres", "Sqlite"}
          /\ pc' \in {"indexer", "panicked"}
          /\ UNCHANGED dbLast
       \/ /\ args.dbUrl # "none"
          /\ ParseDbType(args.dbUrl) = "unimplemented"
          /\ pc' = "panicked"
          /\ UNCHANGED dbLast
       \/ /\ args.dbUrl = "none"
          /\ dbLast' = NoSlot
          /\ pc' \in {"migrate", "panicked"}
    /\ UNCHANGED <<args, net, rpcUp, migrated, dbResult, lastIndexedSlot,
                   indexer, api>>

\* Migrator::up on the temporary database.
RunMigrations ==
    /\ pc = "migrate"
    /\ migrated' = TRUE
    /\ pc' = "indexer"
    /\ UNCHANGED <<args, net, rpcUp, dbLast, dbResult, lastIndexedSlot,
                   indexer, api>>

\* Migrator::up(...).unwrap() when a migration fails.
MigrationsFail ==
    /\ pc = "migrate"
    /\ pc' = "panicked"
    /\ UNCHANGED <<args, net, rpcUp, dbLast, migrated, dbResult,
                   lastIndexedSlot, indexer, api>>

\* --disable-indexing: no indexer task.
SkipIndexer ==
    /\ pc = "indexer"
    /\ args.disableIndexing
    /\ pc' = "api"
    /\ UNCHANGED <<args, net, rpcUp, dbLast, migrated, dbResult,
                   lastIndexedSlot, indexer, api>>

\* The unwrap_or argument is evaluated first, whatever start_slot is: the
\* database is read ...
FetchLastIndexedSlot ==
    /\ pc = "indexer"
    /\ ~args.disableIndexing
    /\ dbResult' = dbLast
    /\ pc' = "genesis"
    /\ UNCHANGED <<args, net, rpcUp, dbLast, migrated, lastIndexedSlot,
                   indexer, api>>

\* ... and so is the genesis block, which get_genesis_hash_with_infinite_retry
\* retries until the RPC node answers; then the slot is chosen and the
\* indexer task spawned.
SpawnIndexer ==
    /\ pc = "genesis"
    /\ rpcUp
    /\ lastIndexedSlot' = LastIndexedSlot(args.startSlot, dbResult, net)
    /\ indexer' = "running"
    /\ pc' = "api"
    /\ UNCHANGED <<args, net, rpcUp, dbLast, migrated, dbResult, api>>

\* start_api_server: run_server(...).await.unwrap() fails when the port
\* cannot be bound.
StartApiServer ==
    /\ pc = "api"
    /\ \/ /\ args.disableApi
          /\ pc' = "signal"
          /\ UNCHANGED api
       \/ /\ ~args.disableApi
          /\ api' = "running"
          /\ pc' = "signal"
       \/ /\ ~args.disableApi
          /\ pc' = "panicked"
          /\ UNCHANGED api
    /\ UNCHANGED <<args, net, rpcUp, dbLast, migrated, dbResult,
                   lastIndexedSlot, indexer>>

\* ctrl_c() returns Ok.
ShutdownSignal ==
    /\ pc = "signal"
    /\ pc' = "abort"
    /\ UNCHANGED <<args, net, rpcUp, dbLast, migrated, dbResult,
                   lastIndexedSlot, indexer, api>>

\* ctrl_c() returns Err: main logs it and goes on to its last lines.
SignalListenError ==
    /\ pc = "signal"
    /\ pc' = "drop"
    /\ UNCHANGED <<args, net, rpcUp, dbLast, migrated, dbResult,
                   lastIndexedSlot, indexer, api>>

\* A variant of the step below that joins the indexer without aborting it.
AbortIndexerJoinOnly ==
    /\ pc = "abort"
    /\ pc' = IF indexer = "none" THEN "stop_api" ELSE "join"
    /\ UNCHANGED <<args, net, rpcUp, dbLast, migrated, dbResult,
                   lastIndexedSlot, indexer, api>>

\* indexer_handle.abort(): a running task is cancelled at its next await.
AbortIndexer ==
    /\ pc = "abort"
    /\ pc' = IF indexer = "none" THEN "stop_api" ELSE "join"
    /\ indexer' = IF indexer = "running" THEN "aborting" ELSE indexer
    /\ UNCHANGED <<args, net, rpcUp, dbLast, migrated, dbResult,
                   lastIndexedSlot, api>>

\* indexer_handle.await.expect_err(...): the join waits for the task to end;
\* it ends cancelled or panicked, never with Ok, since
\* continously_index_new_blocks does not return.
JoinIndexer ==
    /\ pc = "join"
    /\ indexer \in {"cancelled", "panicked"}
    /\ pc' = "stop_api"
    /\ UNCHANGED <<args, net, rpcUp, dbLast, migrated, dbResult,
                   lastIndexedSlot, indexer, api>>

\* api_handler.stop().unwrap(): the server is told to stop.
StopApi ==
    /\ pc = "stop_api"
    /\ api' = IF api = "running" THEN "stopping" ELSE api
    /\ pc' = "drop"
    /\ UNCHANGED <<args, net, rpcUp, dbLast, migrated, dbResult,
                   lastIndexedSlot, indexer>>

\* tokio::spawn(api_handler.stopped()) and main returns: the runtime is
\* shut down and the spawned wait is dropped with it.
ExitMain ==
    /\ pc = "drop"
    /\ pc' = "exited"
    /\ UNCHANGED <<args, net, rpcUp, dbLast, migrated, dbResult,
                   lastIndexedSlot, indexer, api>>

MainStep ==
    \/ SetupDatabaseConnection \/ RunMigrations \/ MigrationsFail \/ SkipIndexer
    \/ FetchLastIndexedSlot \/ SpawnIndexer \/ StartApiServer
    \/ AbortIndexer \/ JoinIndexer \/ StopApi \/ ExitMain

\* The cancelled indexer task reaches an await and ends.
IndexerCancelled ==
    /\ ~Terminated
    /\ indexer = "aborting"
    /\ indexer' = "cancelled"
    /\ UNCHANGED <<args, net, rpcUp, dbLast, pc, migrated, dbResult,
                   lastIndexedSlot, api>>

\* The indexer task panics (an unwrap in the indexing loop).
IndexerPanics ==
    /\ ~Terminated
    /\ indexer \in {"running", "aborting"}
    /\ indexer' = "panicked"
    /\ UNCHANGED <<args, net, rpcUp, dbLast, pc, migrated, dbResult,
                   lastIndexedSlot, api>>

\* The stopping API server finishes its clean-up.
ApiServerStopped ==
    /\ ~Terminated
    /\ api = "stopping"
    /\ api' = "stopped"
    /\ UNCHANGED <<args, net, rpcUp, dbLast, pc, migrated, dbResult,
                   lastIndexedSlot, indexer>>

\* An RPC outage ends.
RpcRecovers ==
    /\ ~rpcUp
    /\ rpcUp' = TRUE
    /\ UNCHANGED <<args, net, dbLast, pc, migrated, dbResult, lastIndexedSlot,
                   indexer, api>>

Next ==
    \/ MainStep \/ ShutdownSignal \/ SignalListenError
    \/ IndexerCancelled \/ IndexerPanics \/ ApiServerStopped \/ RpcRecovers

\* The tokio runtime keeps running main and the tasks that are ready; the
\* signal, the panics and the RPC node are outside its control.
Spec ==
    /\ Init /\ [][Next]_vars
    /\ WF_vars(MainStep)
    /\ WF_vars(IndexerCancelled)
    /\ WF_vars(ApiServerStopped)

-----------------------------------------------------------------------------
TypeOK ==
    /\ args \in Args
    /\ net \in Networks
    /\ rpcUp \in BOOLEAN
    /\ dbLast \in {NoSlot} \cup DbSlots
    /\ pc \in {"setup", "migrate", "indexer", "genesis", "api", "signal",
               "abort", "join", "stop_api", "drop", "exited", "panicked"}
    /\ migrated \in BOOLEAN
    /\ dbResult \in {NoSlot} \cup DbSlots
    /\ lastIndexedSlot \in {NoSlot} \cup Nat
    /\ indexer \in {"none", "running", "aborting", "cancelled", "panicked"}
    /\ api \in {"none", "running", "stopping", "stopped"}

-----------------------------------------------------------------------------
(***************************************************************************)
(* The temporary database photon creates when --db-url is absent is       *)
(* migrated before the indexer task or the API server can touch it: the   *)
(* migration in main precedes both spawns.                                 *)
(***************************************************************************)
SchemaBeforeUse ==
    args.dbUrl = "none" /\ (indexer # "none" \/ api # "none") => migrated

(***************************************************************************)
(* Once ctrl-c is received, main terminates: the aborted indexer task     *)
(* ends, so the join in the shutdown path does not wait forever.          *)
(***************************************************************************)
ShutdownCompletes == pc = "abort" ~> Terminated

(***************************************************************************)
(* The comment before main's last lines: "We need to wait for the API     *)
(* server to stop to ensure that all clean up is done".  When main        *)
(* returns, the API server was never started or has stopped.              *)
(***************************************************************************)
ApiStoppedOnExit == pc = "exited" => api \in {"none", "stopped"}

(***************************************************************************)
(* With --start-slot given, nothing but the slot itself is needed to      *)
(* start indexing: the indexer task starts (or main panics) even when the *)
(* RPC node never answers the genesis-hash request.                        *)
(***************************************************************************)
StartSlotNeedsNoRpc ==
    args.startSlot # NoSlot /\ ~args.disableIndexing
        => <>(indexer # "none" \/ pc = "panicked")

\* "The start slot to begin indexing from. Defaults to the last indexed
\* slot in the database plus one."
DocumentedStart ==
    IF args.startSlot # NoSlot THEN args.startSlot ELSE dbResult + 1

(***************************************************************************)
(* The --start-slot documentation: the first block the indexer's stream   *)
(* delivers is the first block at or after the start slot, or after the   *)
(* last slot the database holds; read with the stream's convention that   *)
(* it starts at last_indexed_slot + 1.                                    *)
(***************************************************************************)
StartSlotStreamedFirst ==
    indexer # "none" /\ (args.startSlot # NoSlot \/ dbResult # NoSlot)
        => FirstStreamed(lastIndexedSlot) = FirstBlockFrom(DocumentedStart)

=============================================================================

---------------------------- MODULE SnapshotServer ----------------------------
(***************************************************************************)
(* The snapshot server binary (src/src/snapshot/server/main.rs): it picks *)
(* the slot to resume from, spawns the snapshotter task and the HTTP      *)
(* server task, serves /download, /health and /readiness, and on ctrl-c    *)
(* aborts both tasks and asserts (expect_err) that each join fails.       *)
(***************************************************************************)
EXTENDS Integers, Sequences, BlockStream

CONSTANTS
    StartSlots,          \* values of --start-slot (slots that hold a block)
    NetworkStartSlots,   \* what get_network_start_slot may answer
    SnapshotListings,    \* what get_snapshot_files_with_slots may list:
                         \* end slots, oldest first
    SnapshotStreams      \* what load_byte_stream_from_snapshot_directory
                         \* may yield: a byte read or a read error per item

\* A start slot is a block with a block before it (its parent); the
\* listing of snapshot files is in slot order.
ASSUME ConstantsAssumption ==
    /\ StartSlots \subseteq Blocks
    /\ \A s \in StartSlots : \E b \in Blocks : b < s
    /\ NetworkStartSlots \subseteq Nat
    /\ SnapshotListings \subseteq Seq(Nat)
    /\ \A f \in SnapshotListings :
           \A i, j \in DOMAIN f : i <= j => f[i] <= f[j]
    /\ SnapshotStreams \subseteq Seq({"byte", "err"})

Paths == {"/download", "/health", "/readiness", "/metrics"}

VARIABLES
    startSlot,        \* --start-slot, or NoSlot
    files,            \* the snapshot files in --snapshot-dir
    pc,               \* where main is
    lastIndexedSlot,  \* BlockStreamConfig.last_indexed_slot
    snapshotter,      \* the snapshotter task: none, running, aborting, cancelled, panicked
    server,           \* the server task: none, running, finished, aborting, cancelled, panicked
    status,           \* the status of the last response, or 0
    download          \* the /download response in flight on the connection

vars == <<startSlot, files, pc, lastIndexedSlot, snapshotter, server, status,
          download>>

\* A /download response: the snapshot's byte stream, the position of the
\* stream item read next, the bytes sent in the body, and whether the body
\* is being streamed, ended, or was cut off.
Downloads ==
    [items : SnapshotStreams, pos : Nat, sent : Nat,
     state : {"none", "streaming", "complete", "failed", "dropped"}]

NoDownload == [items |-> <<>>, pos |-> 0, sent |-> 0, state |-> "none"]

Terminated == pc \in {"exited", "panicked", "join_panicked"}

\* handle_request's routing; stream_bytes always builds its response.
Route(path) ==
    CASE path = "/download"                -> 200
      [] path \in {"/health", "/readiness"} -> 200
      [] OTHER                              -> 404

Init ==
    /\ startSlot \in {NoSlot} \cup StartSlots
    /\ files \in SnapshotListings
    /\ pc = "setup"
    /\ lastIndexedSlot = NoSlot
    /\ snapshotter = "none"
    /\ server = "none"
    /\ status = 0
    /\ download = NoDownload

\* create_dir_all(...).unwrap() when the directory is missing.
CreateSnapshotDir ==
    /\ pc = "setup"
    /\ pc' \in {"slot", "panicked"}
    /\ UNCHANGED <<download, startSlot, files, lastIndexedSlot, snapshotter, server,
                   status>>

\* A variant of the step below that resumes at the start slot itself.
SelectLastIndexedSlotNoParent ==
    /\ pc = "slot"
    /\ \/ /\ startSlot # NoSlot
          /\ lastIndexedSlot' = startSlot
       \/ /\ startSlot = NoSlot /\ files = <<>>
          /\ lastIndexedSlot' \in NetworkStartSlots
       \/ /\ startSlot = NoSlot /\ files # <<>>
          /\ lastIndexedSlot' = files[Len(files)]
    /\ pc' = "spawn"
    /\ UNCHANGED <<download, startSlot, files, snapshotter, server, status>>

\* last_indexed_slot: the parent of --start-slot, else the network's start
\* slot when there is no snapshot yet, else the end slot of the last file.
SelectLastIndexedSlot ==
    /\ pc = "slot"
    /\ \/ /\ startSlot # NoSlot
          /\ lastIndexedSlot' = ParentSlot(startSlot)
       \/ /\ startSlot = NoSlot /\ files = <<>>
          /\ lastIndexedSlot' \in NetworkStartSlots
       \/ /\ startSlot = NoSlot /\ files # <<>>
          /\ lastIndexedSlot' = files[Len(files)]
    /\ pc' = "spawn"
    /\ UNCHANGED <<download, startSlot, files, snapshotter, server, status>>

\* get_snapshot_files_with_slots(...).unwrap() on a directory that cannot
\* be listed.
ListSnapshotFilesFails ==
    /\ pc = "slot"
    /\ startSlot = NoSlot
    /\ pc' = "panicked"
    /\ UNCHANGED <<download, startSlot, files, lastIndexedSlot, snapshotter,
                   server, status>>

\* continously_run_snapshotter, then create_server: two spawned tasks.
SpawnTasks ==
    /\ pc = "spawn"
    /\ snapshotter' = "running"
    /\ server' = "running"
    /\ pc' = "signal"
    /\ UNCHANGED <<download, startSlot, files, lastIndexedSlot, status>>

\* ctrl_c() returns Ok, or Err and main returns.
Signal ==
    /\ pc = "signal"
    /\ \/ pc' = "abort_snapshotter"
       \/ pc' = "exited"
    /\ UNCHANGED <<download, startSlot, files, lastIndexedSlot, snapshotter, server,
                   status>>

\* The abort of a task that is still running takes effect at its next
\* await; the abort of a finished task does nothing.
Aborted(task) == IF task = "running" THEN "aborting" ELSE task

\* A variant of the step below that joins the snapshotter without aborting.
AbortSnapshotterJoinOnly ==
    /\ pc = "abort_snapshotter"
    /\ pc' = "join_snapshotter"
    /\ UNCHANGED <<download, startSlot, files, lastIndexedSlot, snapshotter, server,
                   status>>

\* snapshotter_handle.abort().
AbortSnapshotter ==
    /\ pc = "abort_snapshotter"
    /\ snapshotter' = Aborted(snapshotter)
    /\ pc' = "join_snapshotter"
    /\ UNCHANGED <<download, startSlot, files, lastIndexedSlot, server, status>>

\* snapshotter_handle.await.expect_err(...): update_snapshot does not
\* return, so the join ends cancelled or panicked.
JoinSnapshotter ==
    /\ pc = "join_snapshotter"
    /\ snapshotter \in {"cancelled", "panicked"}
    /\ pc' = "abort_server"
    /\ UNCHANGED <<download, startSlot, files, lastIndexedSlot, snapshotter, server,
                   status>>

\* server_handle.abort().
AbortServer ==
    /\ pc = "abort_server"
    /\ server' = Aborted(server)
    /\ pc' = "join_server"
    /\ UNCHANGED <<download, startSlot, files, lastIndexedSlot, snapshotter, status>>

\* server_handle.await.expect_err(...): Err (cancelled or panicked)
\* passes, Ok panics.
JoinServer ==
    /\ pc = "join_server"
    /\ server \in {"cancelled", "panicked", "finished"}
    /\ pc' = IF server = "finished" THEN "join_panicked" ELSE "exited"
    /\ UNCHANGED <<download, startSlot, files, lastIndexedSlot, snapshotter, server,
                   status>>

MainStep ==
    \/ CreateSnapshotDir \/ SelectLastIndexedSlot \/ ListSnapshotFilesFails
    \/ SpawnTasks
    \/ AbortSnapshotter \/ JoinSnapshotter \/ AbortServer \/ JoinServer

\* An aborted task reaches an await and ends.
TaskCancelled ==
    /\ ~Terminated
    /\ \/ /\ snapshotter = "aborting"
          /\ snapshotter' = "cancelled"
          /\ UNCHANGED server
       \/ /\ server = "aborting"
          /\ server' = "cancelled"
          /\ UNCHANGED snapshotter
    /\ UNCHANGED <<download, startSlot, files, pc, lastIndexedSlot, status>>

\* update_snapshot panics.
SnapshotterPanics ==
    /\ ~Terminated
    /\ snapshotter \in {"running", "aborting"}
    /\ snapshotter' = "panicked"
    /\ UNCHANGED <<download, startSlot, files, pc, lastIndexedSlot, server, status>>

\* Server::bind panics when the port cannot be bound; server.await
\* returning Err is logged and the task returns normally.
ServerEnds ==
    /\ ~Terminated
    /\ server = "running"
    /\ server' \in {"panicked", "finished"}
    /\ UNCHANGED <<download, startSlot, files, pc, lastIndexedSlot, snapshotter, status>>

\* One request handled by the running server on the client's connection,
\* which sends its next request once the last response has ended.  For
\* /download, stream_bytes answers 200 at once and the body is the
\* snapshot's byte stream.
HandleRequest ==
    /\ ~Terminated
    /\ server = "running"
    /\ download.state # "streaming"
    /\ \E path \in Paths :
          /\ status' = Route(path)
          /\ \/ /\ path = "/download"
                /\ \E bytes \in SnapshotStreams :
                      download' = [items |-> bytes, pos |-> 0, sent |-> 0,
                                   state |-> "streaming"]
             \/ /\ path # "/download"
                /\ UNCHANGED download
    /\ UNCHANGED <<startSlot, files, pc, lastIndexedSlot, snapshotter, server>>

\* The next item of the stream is a byte read: it goes out as a chunk.
SendByte ==
    /\ ~Terminated
    /\ download.state = "streaming"
    /\ download.pos < Len(download.items)
    /\ download.items[download.pos + 1] = "byte"
    /\ download' = [download EXCEPT !.pos = @ + 1, !.sent = @ + 1]
    /\ UNCHANGED <<startSlot, files, pc, lastIndexedSlot, snapshotter, server,
                   status>>

\* The next item is a read error: it is logged and mapped to an io::Error,
\* and hyper aborts the body of the 200 response already sent.
StreamError ==
    /\ ~Terminated
    /\ download.state = "streaming"
    /\ download.pos < Len(download.items)
    /\ download.items[download.pos + 1] = "err"
    /\ download' = [download EXCEPT !.state = "failed"]
    /\ UNCHANGED <<startSlot, files, pc, lastIndexedSlot, snapshotter, server,
                   status>>

\* The stream is exhausted and the body ends.
EndOfBody ==
    /\ ~Terminated
    /\ download.state = "streaming"
    /\ download.pos = Len(download.items)
    /\ download' = [download EXCEPT !.state = "complete"]
    /\ UNCHANGED <<startSlot, files, pc, lastIndexedSlot, snapshotter, server,
                   status>>

\* hyper serves each connection in a task of its own, which the abort of
\* the server task leaves running; when main ends, the runtime drops it.
ConnectionDropped ==
    /\ Terminated
    /\ download.state = "streaming"
    /\ download' = [download EXCEPT !.state = "dropped"]
    /\ UNCHANGED <<startSlot, files, pc, lastIndexedSlot, snapshotter, server,
                   status>>

Next ==
    \/ MainStep \/ Signal
    \/ TaskCancelled \/ SnapshotterPanics \/ ServerEnds \/ HandleRequest
    \/ SendByte \/ StreamError \/ EndOfBody \/ ConnectionDropped

\* The runtime keeps main and the ready tasks running; the signal, the
\* failures and the clients are outside its control.
Spec ==
    /\ Init /\ [][Next]_vars
    /\ WF_vars(MainStep)
    /\ WF_vars(TaskCancelled)

-----------------------------------------------------------------------------
TypeOK ==
    /\ startSlot \in {NoSlot} \cup StartSlots
    /\ files \in SnapshotListings
    /\ pc \in {"setup", "slot", "spawn", "signal", "abort_snapshotter",
               "join_snapshotter", "abort_server", "join_server", "exited",
               "panicked", "join_panicked"}
    /\ lastIndexedSlot \in {NoSlot} \cup Nat
    /\ snapshotter \in {"none", "running", "aborting", "cancelled", "panicked"}
    /\ server \in {"none", "running", "finished", "aborting", "cancelled",
                   "panicked"}
    /\ status \in {0, 200, 404}
    /\ download \in Downloads \cup {NoDownload}

-----------------------------------------------------------------------------
\* The last end slot among the snapshot files.
LastSnapshotEnd == Max({files[i] : i \in DOMAIN files})

(***************************************************************************)
(* The snapshotter resumes where it should: with --start-slot its stream  *)
(* begins with the start slot's block (main passes the block's parent as  *)
(* last_indexed_slot), and without it, after existing snapshots, with the *)
(* first block after the last snapshot's end slot: no block is skipped   *)
(* and none is snapshotted twice.                                          *)
(***************************************************************************)
SnapshotterStartsRight ==
    /\ snapshotter # "none" /\ startSlot # NoSlot
           => FirstStreamed(lastIndexedSlot) = startSlot
    /\ snapshotter # "none" /\ startSlot = NoSlot /\ files # <<>>
           => FirstStreamed(lastIndexedSlot) = FirstBlockFrom(LastSnapshotEnd + 1)

(***************************************************************************)
(* Once ctrl-c is received, main terminates: each aborted task ends, so   *)
(* neither join waits forever.                                             *)
(***************************************************************************)
ShutdownCompletes == pc = "abort_snapshotter" ~> Terminated

(***************************************************************************)
(* The shutdown's assertions: expect_err("Server should have been         *)
(* aborted") and its twin for the snapshotter never fire, i.e. each join  *)
(* after an abort returns Err.                                             *)
(***************************************************************************)
ShutdownNeverPanics == pc # "join_panicked"

=============================================================================

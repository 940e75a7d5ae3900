----------------------------- MODULE WindowsPoll -----------------------------
(***************************************************************************)
(* The emulation of poll and pipes on Windows (os/poll_windows.c of        *)
(* libusb): a table of fake descriptors, each with a handle and an         *)
(* OVERLAPPED, and a critical section for each row.  One of them is the    *)
(* control pipe of the context; each transfer that is submitted gets one,  *)
(* until it is completed.                                                  *)
(*                                                                         *)
(* Each of the Submitters submits one transfer after another, and the      *)
(* thread 0 handles events.  They meet at the table and at the events      *)
(* lock, as usbi_fd_notification takes it.                                 *)
(***************************************************************************)
EXTENDS Integers, FiniteSetsExt

CONSTANTS Submitters, MAX_FDS

VARIABLES
  table,         (* of each row: fd, or 0; whose OVERLAPPED it has           *)
  section,       (* the thread in the critical section of each row, or -1    *)
  fds,           (* descriptors of the C runtime in use                      *)
  signaled,      (* the event of the pipe is set                             *)
  InternalHigh,  (* bytes in it                                              *)
  completed,     (* transfers whose OVERLAPPED has completed                 *)
  pc, at,        (* of each thread; the row that it looks at                 *)
  fd,            (* the descriptor of each transfer                          *)
  pollfds,       (* descriptors that the context polls                       *)
  modify, events_lock,  (* pollfd_modify; who has the lock, or -1            *)
  todo, waits, triggered  (* of usbi_poll: descriptors not looked at yet;    *)
                 (* whose events it waits for, and who has completed         *)

rows == <<table, section, fds>>
pipe == <<signaled, InternalHigh>>
poll == <<todo, waits, triggered>>
context == <<pollfds, modify, events_lock>>
vars == <<rows, pipe, completed, pc, at, fd, context, poll>>

Threads == Submitters \cup {0}
Rows == 1 .. MAX_FDS
Pipe == 3                 (* its descriptor; the first that is not standard  *)
NoRow == [fd |-> 0, of |-> 0]

(* usbi_pipe, as the context is created; there may be one of another       *)
(* context, which nobody here looks for.                                   *)
Other == [fd |-> Pipe + MAX_FDS + 2, of |-> -1]
Init ==
  /\ \E other \in {NoRow, Other} :
       table = [i \in Rows |-> IF i = 1 THEN [fd |-> Pipe, of |-> 0]
                               ELSE IF i = 2 THEN other ELSE NoRow]
  /\ section = [i \in Rows |-> -1] /\ fds = {Pipe}
  /\ signaled = FALSE /\ InternalHigh = 0 /\ completed = {}
  /\ pc = [t \in Threads |-> "idle"] /\ at = [t \in Threads |-> 1]
  /\ fd = [t \in Threads |-> IF t = 0 THEN Pipe ELSE 0]
  /\ pollfds = {Pipe} /\ modify = 0 /\ events_lock = -1
  /\ todo = {} /\ waits = {} /\ triggered = {}

Goto(t, where) == pc' = [pc EXCEPT ![t] = where]
-----------------------------------------------------------------------------
(* The search for a row, without its lock: for a free one, for that of the *)
(* transfer, of the pipe, or of the next that is polled, or, by the event  *)
(* thread, that of a transfer that is completed.                           *)
Searching == {"create", "free", "write", "read", "poll", "done"}
Wanted(t) ==
  CASE pc[t] = "create" -> 0 [] pc[t] = "free" -> fd[t] [] pc[t] \in {"write", "read"} -> Pipe
    [] pc[t] = "poll" -> Min(todo) [] OTHER -> fd[Min(triggered \ {0})]
Here(t) == at[t] \in Rows /\ table[at[t]].fd = Wanted(t)

Skip(t) ==
  /\ pc[t] \in Searching /\ at[t] \in Rows /\ ~Here(t)
  /\ at' = [at EXCEPT ![t] = @ + 1]
  /\ UNCHANGED <<rows, pipe, completed, pc, fd, context, poll>>

(* It enters the critical section, where it tests again.                   *)
Enters(t) == pc[t] \in Searching /\ Here(t) /\ section[at[t]] = -1
Holds(t) == section' = [section EXCEPT ![at[t]] = t]
Leaves(t) == section' = [section EXCEPT ![at[t]] = -1]
Search(t, for) == Goto(t, for) /\ at' = [at EXCEPT ![t] = 1]
-----------------------------------------------------------------------------
(* usbi_create_fd                                                          *)
Create(t) ==
  /\ pc[t] = "idle" /\ fd[t] = 0
  /\ \E new \in Pipe .. Pipe + MAX_FDS + 1 \ fds :
       /\ Pipe .. new - 1 \subseteq fds
       /\ fds' = fds \cup {new} /\ fd' = [fd EXCEPT ![t] = new]
  /\ Search(t, "create")
  /\ UNCHANGED <<table, section, pipe, completed, context, poll>>

Created(t) ==
  /\ pc[t] = "create" /\ Enters(t)
  /\ table' = [table EXCEPT ![at[t]] = [fd |-> fd[t], of |-> t]]
  /\ Goto(t, "submit")
  /\ UNCHANGED <<section, fds, pipe, completed, at, fd, context, poll>>

TableFull(t) ==
  /\ pc[t] = "create" /\ at[t] \notin Rows
  /\ fds' = fds \ {fd[t]} /\ fd' = [fd EXCEPT ![t] = 0] /\ Search(t, "idle")
  /\ UNCHANGED <<table, section, pipe, completed, context, poll>>

Submitted(t) ==
  /\ pc[t] = "submit" /\ Goto(t, "notify")
  /\ pollfds' = pollfds \cup {fd[t]}
  /\ UNCHANGED <<rows, pipe, completed, at, fd, modify, events_lock, poll>>

(* usbi_free_fd: the descriptor is closed before the row is free.          *)
SubmitFails(t) ==
  /\ pc[t] = "submit" /\ Search(t, "free")
  /\ UNCHANGED <<rows, pipe, completed, fd, context, poll>>

Free(t) ==
  /\ pc[t] = "free" /\ Enters(t)
  /\ Holds(t) /\ fds' = fds \ {fd[t]} /\ Goto(t, "freeing")
  /\ UNCHANGED <<table, pipe, completed, at, fd, context, poll>>

Freed(t) ==
  /\ pc[t] = "freeing"
  /\ table' = [table EXCEPT ![at[t]] = NoRow] /\ Leaves(t)
  /\ fd' = [fd EXCEPT ![t] = 0] /\ Search(t, "idle")
  /\ UNCHANGED <<fds, pipe, completed, context, poll>>

(* The system completes a transfer, maybe before its notification ends.    *)
InFlight == {t \in Submitters : fd[t] # 0 /\ pc[t] \notin {"create", "submit", "free", "freeing"}}
Complete(t) ==
  /\ t \in InFlight
  /\ completed' = completed \cup {t}
  /\ UNCHANGED <<rows, pipe, pc, at, fd, context, poll>>
-----------------------------------------------------------------------------
(* usbi_fd_notification, with usbi_write and usbi_read, which waits in the *)
(* critical section                                                        *)
Notify(t) ==
  /\ pc[t] = "notify" /\ Search(t, "write")
  /\ modify' = modify + 1
  /\ UNCHANGED <<rows, pipe, completed, fd, pollfds, events_lock, poll>>

Write(t) ==
  /\ pc[t] = "write" /\ Enters(t) /\ Goto(t, "lock")
  /\ signaled' = TRUE /\ InternalHigh' = InternalHigh + 1
  /\ UNCHANGED <<rows, completed, at, fd, context, poll>>

LockEvents(t) ==
  /\ pc[t] = "lock" /\ events_lock = -1
  /\ events_lock' = t /\ Search(t, "read")
  /\ UNCHANGED <<rows, pipe, completed, fd, pollfds, modify, poll>>

Read(t) ==
  /\ pc[t] = "read" /\ Enters(t) /\ Holds(t) /\ Goto(t, "reading")
  /\ UNCHANGED <<table, fds, pipe, completed, at, fd, context, poll>>

ReadEnds(t) ==
  /\ pc[t] = "reading" /\ signaled
  /\ InternalHigh' = InternalHigh - 1 /\ signaled' = (InternalHigh' > 0)
  /\ Leaves(t) /\ Goto(t, "unlock")
  /\ UNCHANGED <<table, fds, completed, at, fd, context, poll>>

Unlock(t) ==
  /\ pc[t] = "unlock" /\ events_lock' = -1
  /\ Search(t, "idle") /\ modify' = (IF t = 0 THEN modify ELSE modify - 1)
  /\ UNCHANGED <<rows, pipe, completed, fd, pollfds, poll>>
-----------------------------------------------------------------------------
(* The event thread in usbi_poll                                           *)
PollBegins ==
  /\ pc[0] = "idle" /\ modify = 0 /\ events_lock = -1
  /\ events_lock' = 0 /\ Search(0, "poll")
  /\ todo' = pollfds /\ waits' = {} /\ triggered' = {}
  /\ UNCHANGED <<rows, pipe, completed, fd, pollfds, modify>>

Ready(of) == IF of = 0 THEN signaled ELSE of \in completed

PollNext ==
  /\ pc[0] = "poll" /\ todo # {} /\ Enters(0)
  /\ LET of == table[at[0]].of IN
       IF Ready(of) THEN triggered' = triggered \cup {of} /\ UNCHANGED waits
       ELSE waits' = waits \cup {of} /\ UNCHANGED triggered
  /\ todo' = todo \ {Wanted(0)}
  /\ Search(0, IF todo' # {} THEN "poll" ELSE IF triggered' # {} THEN "handle" ELSE "wait")
  /\ UNCHANGED <<rows, pipe, completed, fd, context>>

(* One event ends the wait, or nothing does for 60 seconds.                *)
PollReturns ==
  /\ pc[0] = "wait"
  /\ \/ \E of \in waits : Ready(of) /\ triggered' = {of} /\ Goto(0, "handle")
     \/ Goto(0, "unlock") /\ UNCHANGED triggered
  /\ UNCHANGED <<rows, pipe, completed, at, fd, context, todo, waits>>

(* windows_handle_events and windows_handle_callback                       *)
Handle ==
  /\ pc[0] = "handle"
  /\ IF triggered \ {0} = {} THEN Goto(0, "unlock") /\ UNCHANGED <<at, pollfds>>
     ELSE Search(0, "done") /\ pollfds' = pollfds \ {fd[Min(triggered \ {0})]}
  /\ UNCHANGED <<rows, pipe, completed, fd, modify, events_lock, poll>>

FreeCompleted ==
  /\ pc[0] = "done" /\ Enters(0)
  /\ Holds(0) /\ fds' = fds \ {Wanted(0)} /\ Goto(0, "freed")
  /\ UNCHANGED <<table, pipe, completed, at, fd, context, poll>>

FreedCompleted ==
  /\ pc[0] = "freed"
  /\ LET t == Min(triggered \ {0}) IN
       /\ table' = [table EXCEPT ![at[0]] = NoRow] /\ Leaves(0)
       /\ fd' = [fd EXCEPT ![t] = 0] /\ completed' = completed \ {t}
       /\ triggered' = triggered \ {t}
       /\ Goto(0, "handle")
  /\ UNCHANGED <<fds, pipe, at, context, todo, waits>>

Next ==
  \/ \E t \in Threads :
       \/ Skip(t) \/ Create(t) \/ Created(t) \/ TableFull(t) \/ Submitted(t) \/ SubmitFails(t)
       \/ Free(t) \/ Freed(t) \/ Complete(t) \/ Notify(t) \/ Write(t) \/ LockEvents(t)
       \/ Read(t) \/ ReadEnds(t) \/ Unlock(t)
  \/ PollBegins \/ PollNext \/ PollReturns
  \/ Handle \/ FreeCompleted \/ FreedCompleted
-----------------------------------------------------------------------------
TypeOK ==
  /\ section \in [Rows -> Threads \cup {-1}] /\ events_lock \in Threads \cup {-1}
  /\ InternalHigh \in 0 .. Cardinality(Submitters) /\ modify \in 0 .. Cardinality(Submitters)
  /\ completed \subseteq Submitters /\ waits \subseteq Threads /\ triggered \subseteq Threads

(* Whatever rows others take and free, and although descriptors are used   *)
(* again, every search for a row ends in the right one, unless the table   *)
(* is full, and whoever reads the pipe finds a byte.                       *)
Found ==
  /\ \A t \in Threads :
       /\ pc[t] \in Searching /\ at[t] \notin Rows => pc[t] = "create"
       /\ pc[t] = "freeing" => table[at[t]] = [fd |-> fd[t], of |-> t]
       /\ pc[t] = "reading" => table[at[t]].of = 0 /\ signaled
  /\ pc[0] = "freed" => table[at[0]].of = Min(triggered \ {0})

(* The thread that waits does so for events that exist, and for those of   *)
(* all transfers, unless somebody is about to notify it of another.        *)
Watched ==
  pc[0] = "wait" =>
    /\ waits \subseteq {table[i].of : i \in {j \in Rows : table[j].fd # 0}}
    /\ {t \in InFlight : pc[t] # "notify"} \subseteq waits \/ signaled \/ modify # 0
=============================================================================

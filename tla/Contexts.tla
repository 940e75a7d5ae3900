------------------------------ MODULE Contexts ------------------------------
(***************************************************************************)
(* libusb_init and libusb_exit (core.c) with the Darwin backend            *)
(* (os/darwin_usb.c), whose event thread all contexts share.  Two users of *)
(* libusb, each in a thread of its own, have the default context or one of *)
(* their own.  default_context_lock is held throughout an initialization,  *)
(* but an exit only counts the users of the default context under it.      *)
(***************************************************************************)
EXTENDS Integers, SequencesExt

CONSTANTS Users,       (* positive numbers                                   *)
          MaxThreads   (* event threads, one after the other                 *)

VARIABLES
  kind,        (* of the context of a user, "default" or "own"               *)
  pc,          (* "out", "init", "waiting", "failing", "in", "exiting",      *)
               (* "stopping"                                                 *)
  lock,        (* default_context_lock                                       *)
  default, default_context_refcnt,   (* usbi_default_context is not NULL     *)
  contexts,    (* those that are not freed: 0 for the default context        *)
  initCount, mp,   (* of the backend; libusb_darwin_mp is valid              *)
  at,          (* libusb_darwin_at, 0 for none                               *)
  acfl,        (* the thread whose run loop libusb_darwin_acfl is            *)
  thread,      (* "none", "starting", "ready" but not in its run loop,       *)
               (* "running", "stopped" or "ended"                            *)
  served,      (* the context each thread was created for                    *)
  clean        (* no initialization has overlapped an exit of the backend or *)
               (* has failed to get the master port                          *)

core == <<kind, lock, default, default_context_refcnt, contexts>>
backend == <<initCount, mp, at, acfl, thread, served>>
vars == <<core, pc, backend, clean>>

Threads == 1 .. MaxThreads
Context(u) == IF kind[u] = "default" THEN 0 ELSE u
Goto(u, where) == pc' = [pc EXCEPT ![u] = where]

Init ==
  /\ kind = [u \in Users |-> "own"] /\ pc = [u \in Users |-> "out"] /\ lock = FALSE
  /\ default = FALSE /\ default_context_refcnt = 0 /\ contexts = {}
  /\ initCount = 0 /\ mp = FALSE /\ at = 0 /\ acfl = 0
  /\ thread = [t \in Threads |-> "none"] /\ served = [t \in Threads |-> 0]
  /\ clean = TRUE
-----------------------------------------------------------------------------
(* libusb_init                                                             *)

Reuse(u) ==
  /\ pc[u] = "out" /\ ~lock /\ default
  /\ kind' = [kind EXCEPT ![u] = "default"] /\ Goto(u, "in")
  /\ default_context_refcnt' = default_context_refcnt + 1
  /\ UNCHANGED <<lock, default, contexts, backend, clean>>

Leaving(u) == pc[u] \in {"exiting", "stopping"}

Create(u, k) ==
  /\ pc[u] = "out" /\ ~lock /\ lock' = TRUE
  /\ k = "default" => ~default
  /\ kind' = [kind EXCEPT ![u] = k] /\ Goto(u, "init")
  /\ clean' = (clean /\ \A v \in Users : ~Leaving(v))
  /\ UNCHANGED <<default, default_context_refcnt, contexts, backend>>

NewThreads == {t \in Threads : thread[t] = "none"}

(* darwin_init                                                             *)
DarwinInit(u) ==
  /\ pc[u] = "init"
  /\ initCount' = initCount + 1
  /\ \/ initCount # 0 /\ Goto(u, "created") /\ UNCHANGED <<mp, at, thread, served>>
     \/ /\ initCount = 0 /\ NewThreads # {}
        /\ LET t == Min(NewThreads) IN
             /\ at' = t
             /\ thread' = [thread EXCEPT ![t] = "starting"]
             /\ served' = [served EXCEPT ![t] = Context(u)]
        /\ mp' = TRUE /\ Goto(u, "waiting")
  /\ UNCHANGED <<core, acfl, clean>>

(* IOMasterPort fails.                                                     *)
DarwinInitFails(u) ==
  /\ pc[u] = "init" /\ initCount = 0 /\ ~mp
  /\ initCount' = 1 /\ Goto(u, "out") /\ lock' = FALSE /\ clean' = FALSE
  /\ UNCHANGED <<kind, default, default_context_refcnt, contexts, mp, at, acfl, thread, served>>

Waited(u) ==
  /\ pc[u] = "waiting" /\ acfl # 0
  /\ Goto(u, "created")
  /\ UNCHANGED <<core, backend, clean>>

Created(u) ==
  /\ pc[u] = "created"
  /\ contexts' = contexts \cup {Context(u)}
  /\ IF kind[u] = "default"
     THEN default' = TRUE /\ default_context_refcnt' = default_context_refcnt + 1
     ELSE UNCHANGED <<default, default_context_refcnt>>
  /\ lock' = FALSE /\ Goto(u, "in")
  /\ UNCHANGED <<kind, backend, clean>>

(* usbi_io_init fails, and the backend exits under the lock.               *)
CreateFails(u) ==
  /\ pc[u] = "created" /\ Goto(u, "failing")
  /\ UNCHANGED <<core, backend, clean>>
-----------------------------------------------------------------------------
(* libusb_exit                                                             *)

Exit(u) ==
  /\ pc[u] = "in"
  /\ IF kind[u] = "default"
     THEN /\ ~lock
          /\ default_context_refcnt' = default_context_refcnt - 1
          /\ default' = (default_context_refcnt' > 0)
     ELSE UNCHANGED <<default, default_context_refcnt>>
  /\ IF kind[u] = "default" /\ default_context_refcnt > 1
     THEN Goto(u, "out") /\ UNCHANGED clean
     ELSE /\ Goto(u, "exiting")
          /\ clean' = (clean /\ ~lock /\ \A v \in Users : ~Leaving(v))
  /\ UNCHANGED <<kind, lock, contexts, backend>>

Done(u) ==
  /\ Goto(u, "out")
  /\ contexts' = IF pc[u] \in {"failing", "unmaking"} THEN contexts ELSE contexts \ {Context(u)}
  /\ lock' = IF pc[u] \in {"failing", "unmaking"} THEN FALSE ELSE lock

(* darwin_exit.  A run loop that has not been entered may not notice that  *)
(* it is stopped.                                                          *)
DarwinExit(u) ==
  /\ pc[u] \in {"exiting", "failing"}
  /\ initCount' = initCount - 1
  /\ IF initCount = 1
     THEN /\ Goto(u, IF pc[u] = "exiting" THEN "stopping" ELSE "unmaking")
          /\ \/ thread' = [t \in Threads |-> IF t = acfl /\ thread[t] # "ended" THEN "stopped"
                                           ELSE thread[t]]
             \/ /\ \A t \in Threads : t = acfl => thread[t] = "ready"
                /\ UNCHANGED thread
          /\ UNCHANGED <<lock, contexts>>
     ELSE Done(u) /\ UNCHANGED thread
  /\ UNCHANGED <<kind, default, default_context_refcnt, mp, at, acfl, served, clean>>

Join(u) ==
  /\ pc[u] \in {"stopping", "unmaking"}
  /\ at = 0 \/ thread[at] = "ended"
  /\ Done(u)
  /\ mp' = FALSE
  /\ UNCHANGED <<kind, default, default_context_refcnt, initCount, at, acfl, thread, served, clean>>
-----------------------------------------------------------------------------
(* event_thread_main                                                       *)

Started(t) ==
  /\ thread[t] = "starting"
  /\ thread' = [thread EXCEPT ![t] = "ready"] /\ acfl' = t
  /\ UNCHANGED <<core, pc, initCount, mp, at, served, clean>>

(* It cannot be notified of devices that go: nobody is told.               *)
StartFails(t) ==
  /\ thread[t] = "starting"
  /\ thread' = [thread EXCEPT ![t] = "ended"]
  /\ UNCHANGED <<core, pc, initCount, mp, at, acfl, served, clean>>

Run(t) ==
  /\ thread[t] = "ready"
  /\ thread' = [thread EXCEPT ![t] = "running"]
  /\ UNCHANGED <<core, pc, initCount, mp, at, acfl, served, clean>>

End(t) ==
  /\ thread[t] = "stopped"
  /\ thread' = [thread EXCEPT ![t] = "ended"] /\ acfl' = 0
  /\ UNCHANGED <<core, pc, initCount, mp, at, served, clean>>

Next ==
  \/ \E u \in Users :
       \/ Reuse(u) \/ DarwinInit(u) \/ DarwinInitFails(u) \/ Waited(u) \/ Created(u)
       \/ CreateFails(u) \/ Exit(u) \/ DarwinExit(u) \/ Join(u)
       \/ \E k \in {"default", "own"} : Create(u, k)
  \/ \E t \in Threads : Started(t) \/ StartFails(t) \/ Run(t) \/ End(t)
-----------------------------------------------------------------------------
TypeOK ==
  /\ kind \in [Users -> {"default", "own"}]
  /\ pc \in [Users -> {"out", "init", "waiting", "created", "failing", "unmaking", "in", "exiting",
                       "stopping"}]
  /\ lock \in BOOLEAN /\ default \in BOOLEAN /\ contexts \subseteq Users \cup {0}
  /\ at \in Threads \cup {0} /\ acfl \in Threads \cup {0}
  /\ thread \in [Threads -> {"none", "starting", "ready", "running", "stopped", "ended"}]

UsersOf(k) == {u \in Users : pc[u] = "in" /\ kind[u] = k}

(* However initializations and exits interleave, the default context is    *)
(* there as long as somebody uses it, and every user has a context.        *)
DefaultCounted ==
  /\ default_context_refcnt = Cardinality(UsersOf("default"))
  /\ default <=> UsersOf("default") # {}
  /\ clean => \A u \in Users : pc[u] = "in" => Context(u) \in contexts

(* If no initialization overlaps an exit or lacks the master port, the     *)
(* event thread and its run loop are there while there is a context, and   *)
(* only then.                                                              *)
Served ==
  clean =>
    /\ (\E u \in Users : pc[u] = "in") =>
         acfl # 0 /\ acfl = at /\ thread[at] \in {"ready", "running"} /\ mp
    /\ (\A u \in Users : pc[u] = "out") =>
         initCount = 0 /\ ~mp /\ \A t \in Threads : thread[t] \in {"none", "ended"}
=============================================================================

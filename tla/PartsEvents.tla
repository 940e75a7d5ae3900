---------------------------- MODULE PartsEvents -----------------------------
(***************************************************************************)
(* The parts that follow what was sent to what comes of it, transfers of   *)
(* libusb to their events and commands of libfreenect to their replies;    *)
(* Parts has them run.                                                     *)
(***************************************************************************)
EXTENDS PartsShared, Integers, SequencesExt

CONSTANTS                               (* of                               *)
  Transfers, MaxTime, Timeouts,         (* Flying                           *)
  Submitters, MAX_FDS,                  (* WindowsPoll                      *)
  MaxCommands, TagMod                   (* CameraCommands                   *)

ASSUME FlyingAssumption ==
  /\ Transfers \in SUBSET (Nat \ {0}) /\ MaxTime \in Nat \ {0}
  /\ Timeouts \in [Transfers -> SUBSET Nat]
ASSUME PollAssumption ==
  Submitters \in SUBSET (Nat \ {0}) /\ IsFiniteSet(Submitters) /\ MAX_FDS \in Nat \ {0}
ASSUME CommandsAssumption == MaxCommands \in Nat /\ TagMod \in Nat \ {0}

VARIABLES
  (* flying *)
  timerfd, now, timer, present, flying, deadline, exact, timedOut, first, urb, epc, cur, why,
  orderly,
  (* poll *)
  table, section, fds, signaled, InternalHigh, completed, fd, pollfds, modify, events_lock,
  waits, triggered,
  (* commands *)
  cam_tag, calls, replies, sent, result, failed, repeated

F == INSTANCE Flying
W == INSTANCE WindowsPoll
K == INSTANCE CameraCommands

ofFlying == <<timerfd, now, timer, present, flying, deadline, exact, timedOut, first, urb, epc,
              cur, why, orderly>>
ofPoll == <<table, section, fds, signaled, InternalHigh, completed, fd, pollfds, modify,
            events_lock, waits, triggered>>
ofCommands == <<cam_tag, calls, replies, sent, result, failed, repeated>>

NoFlying ==
  /\ timerfd = 0 /\ now = 0 /\ timer = 0 /\ present = 0 /\ flying = 0 /\ deadline = 0
  /\ exact = 0 /\ timedOut = 0 /\ first = 0 /\ urb = 0 /\ epc = 0 /\ cur = 0 /\ why = 0
  /\ orderly = 0
NoPoll ==
  /\ table = 0 /\ section = 0 /\ fds = 0 /\ signaled = 0 /\ InternalHigh = 0 /\ completed = 0
  /\ fd = 0 /\ pollfds = 0 /\ modify = 0 /\ events_lock = 0 /\ waits = 0 /\ triggered = 0
NoCommands ==
  /\ cam_tag = 0 /\ calls = 0 /\ replies = 0 /\ sent = 0 /\ result = 0 /\ failed = 0
  /\ repeated = 0
=============================================================================

---------------------------- MODULE PartsDevices ----------------------------
(***************************************************************************)
(* The parts of libusb that have devices, configurations, handles and      *)
(* contexts; Parts has them run.                                           *)
(***************************************************************************)
EXTENDS PartsShared, Integers, SequencesExt

CONSTANTS                               (* of                               *)
  Addrs, MaxGen, SizeStep, MaxRefs,     (* DeviceList                       *)
  Users, MaxThreads,                    (* Contexts                         *)
  Handles, Ifaces                       (* DarwinDevices                    *)

ASSUME ListAssumption ==
  /\ IsFiniteSet(Addrs) /\ 0 \notin Addrs
  /\ MaxGen \in Nat \ {0} /\ SizeStep \in Nat \ {0} /\ MaxRefs \in Nat
ASSUME ContextsAssumption ==
  Users \in SUBSET (Nat \ {0}) /\ IsFiniteSet(Users) /\ MaxThreads \in Nat
ASSUME DarwinAssumption == IsFiniteSet(Handles)

VARIABLES
  (* list *)
  gen, relate, descriptors, scan, discdevs, moved, unplugged, throughout, fresh, list, own,
  handles,
  (* config *)
  all, order, lengths, active, cached, initialized, known, call, value, len, buf, during,
  (* contexts *)
  kind, lock, default, default_context_refcnt, contexts, initCount, mp, acfl, served, clean,
  (* darwin *)
  configured, open_count, device, seized, is_open, source, claimed, iface, reclaimed, inOrder

E == INSTANCE DeviceList
L == INSTANCE LinuxConfig
C == INSTANCE Contexts
D == INSTANCE DarwinDevices

ofList == <<gen, relate, descriptors, scan, discdevs, moved, unplugged, throughout, fresh, list,
            own, handles>>
ofConfig == <<all, order, lengths, active, cached, initialized, known, call, value, len, buf,
              during>>
ofContexts == <<kind, lock, default, default_context_refcnt, contexts, initCount, mp, acfl,
                served, clean>>
ofDarwin == <<configured, open_count, device, seized, is_open, source, claimed, iface,
              reclaimed, inOrder>>

NoList ==
  /\ gen = 0 /\ relate = 0 /\ descriptors = 0 /\ scan = 0 /\ discdevs = 0 /\ moved = 0
  /\ unplugged = 0 /\ throughout = 0 /\ fresh = 0 /\ list = 0 /\ own = 0 /\ handles = 0
NoConfig ==
  /\ all = 0 /\ order = 0 /\ lengths = 0 /\ active = 0 /\ cached = 0 /\ initialized = 0
  /\ known = 0 /\ call = 0 /\ value = 0 /\ len = 0 /\ buf = 0 /\ during = 0
NoContexts ==
  /\ kind = 0 /\ lock = 0 /\ default = 0 /\ default_context_refcnt = 0 /\ contexts = 0
  /\ initCount = 0 /\ mp = 0 /\ acfl = 0 /\ served = 0 /\ clean = 0
NoDarwin ==
  /\ configured = 0 /\ open_count = 0 /\ device = 0 /\ seized = 0 /\ is_open = 0 /\ source = 0
  /\ claimed = 0 /\ iface = 0 /\ reclaimed = 0 /\ inOrder = 0
=============================================================================

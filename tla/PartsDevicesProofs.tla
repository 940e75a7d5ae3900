------------------------- MODULE PartsDevicesProofs -------------------------
(***************************************************************************)
(* The parts of libusb that have devices, configurations, handles and      *)
(* contexts: the invariant of each and its proof.                          *)
(***************************************************************************)
EXTENDS PartsDevices, FiniteSetTheorems, WellFoundedInduction, SequenceTheorems, TLAPS
-----------------------------------------------------------------------------
(* The devices of libusb and their enumeration.                            *)

Devices == [addr : Addrs \cup {0}, gen : 0 .. MaxGen, refcnt : Nat, cached : BOOLEAN]
Refs(d) == E!Holds(discdevs, d) + E!Holds(list, d) + own[d] + (IF d \in handles THEN 1 ELSE 0)
Scanning == scan \in {"sysfs", "usbfs", "iokit"}

(* A device has as many references as are known, and a block without any   *)
(* is free.                                                                *)
DevicesCounted ==
  /\ \A d \in E!Ids : /\ dev[d].refcnt = Refs(d)
                      /\ dev[d].refcnt = 0 => dev[d] = E!Free
                      /\ dev[d].refcnt # 0 => dev[d].addr \in Addrs
  /\ \A d, e \in E!Alive : dev[d].addr = dev[e].addr => d = e

(* What each kind of scan knows.                                           *)
Scan ==
  /\ scan = "no" => discdevs = <<>>
  /\ scan # "no" => ~fresh /\ list = <<>>
  /\ moved => scan \in {"usbfs", "wild"}
  /\ scan \in {"usbfs", "wild"} => relate = 0
  /\ sysfs = "darwin" => scan \in {"no", "iokit"}
  /\ scan = "iokit" => sysfs = "darwin"
  /\ scan = "sysfs" /\ sysfs = "old" => discdevs = <<>>
  /\ throughout \subseteq E!AllAttached

Cached ==
  /\ descriptors = -1 => E!Alive = {}
  /\ descriptors = 0 => \A d \in E!Alive : dev[d].cached
  /\ sysfs = "darwin" => descriptors = 0

(* While no device is unplugged, those that are found are still there, and *)
(* none is found twice.                                                    *)
Listing(devs, s) == {devs[s[i]].addr : i \in DOMAIN s}
UpToDate(devs, gens, s) ==
  /\ \A i \in DOMAIN s : devs[s[i]].addr \in Addrs /\ gens[devs[s[i]].addr] % 2 = 1
  /\ \A i, j \in DOMAIN s : i # j => devs[s[i]].addr # devs[s[j]].addr
OfNow(devs, gens, s) == \A i \in DOMAIN s : devs[s[i]].gen = gens[devs[s[i]].addr]

AllFound ==
  /\ Scanning =>
       /\ throughout \subseteq todo \cup Listing(dev, discdevs)
       /\ ~unplugged => /\ UpToDate(dev, gen, discdevs)
                        /\ todo \subseteq E!AllAttached \ Listing(dev, discdevs)
                        /\ sysfs = "darwin" => OfNow(dev, gen, discdevs)
  /\ fresh =>
       /\ throughout \subseteq Listing(dev, list)
       /\ ~unplugged => /\ UpToDate(dev, gen, list)
                        /\ sysfs = "darwin" => OfNow(dev, gen, list)

ListTyped ==
  /\ E!TypeOK /\ handles \subseteq E!Ids /\ fresh \in BOOLEAN /\ moved \in BOOLEAN
  /\ unplugged \in BOOLEAN
ListInv == ListTyped /\ DevicesCounted /\ Scan /\ Cached /\ AllFound


LEMMA ListCardinality == ASSUME NEW S PROVE E!Cardinality(S) = Cardinality(S)
  BY DEF Cardinality, E!Cardinality

LEMMA ListMin ==
  ASSUME NEW S \in SUBSET Nat, S # {}
  PROVE  E!Min(S) \in S
  <1>1. \E n \in S : \A m \in S : ~(<<m, n>> \in OpToRel(<, Nat))
    BY NatLessThanWellFounded, WFMin
  <1>2. PICK n \in S : \A m \in S : ~(m < n) BY <1>1 DEF OpToRel
  <1>3. \A m \in S : n =< m BY <1>2
  <1> QED BY <1>3 DEF E!Min

(* How often a sequence holds an element.                                  *)
LEMMA HoldsNat ==
  ASSUME NEW S, NEW s \in Seq(S), NEW d
  PROVE  /\ E!Holds(s, d) \in Nat
         /\ E!Holds(s, d) = 0 <=> \A i \in DOMAIN s : s[i] # d
  <1> DEFINE I == {i \in DOMAIN s : s[i] = d}
  <1>1. IsFiniteSet(I)
    <2>1. DOMAIN s = 1 .. Len(s) /\ Len(s) \in Nat OBVIOUS
    <2>2. IsFiniteSet(1 .. Len(s)) BY <2>1, FS_Interval
    <2> QED BY <2>1, <2>2, FS_Subset
  <1>2. Cardinality(I) \in Nat /\ (Cardinality(I) = 0 <=> I = {})
    BY <1>1, FS_CardinalityType, FS_EmptySet
  <1> QED BY <1>2, ListCardinality DEF E!Holds

LEMMA HoldsNone == ASSUME NEW d PROVE E!Holds(<<>>, d) = 0
  <1>1. {i \in DOMAIN <<>> : <<>>[i] = d} = {} OBVIOUS
  <1> QED BY <1>1, FS_EmptySet, ListCardinality DEF E!Holds

LEMMA HoldsAppend ==
  ASSUME NEW S, NEW s \in Seq(S), NEW b \in S, NEW d
  PROVE  E!Holds(Append(s, b), d) = E!Holds(s, d) + IF b = d THEN 1 ELSE 0
  <1> DEFINE n == Len(s) + 1
             I == {i \in DOMAIN s : s[i] = d}
             J == {i \in DOMAIN Append(s, b) : Append(s, b)[i] = d}
  <1>1. /\ DOMAIN s = 1 .. Len(s) /\ Len(s) \in Nat /\ DOMAIN Append(s, b) = 1 .. n
        /\ \A i \in 1 .. Len(s) : Append(s, b)[i] = s[i]
        /\ Append(s, b)[n] = b
    OBVIOUS
  <1>2. n \notin I /\ J = IF b = d THEN I \cup {n} ELSE I
    BY <1>1
  <1>3. IsFiniteSet(I)
    <2>1. I \subseteq 1 .. Len(s) /\ IsFiniteSet(1 .. Len(s)) BY <1>1, FS_Interval
    <2> QED BY <2>1, FS_Subset
  <1>4. Cardinality(I) \in Nat /\ Cardinality(I \cup {n}) = Cardinality(I) + 1
    BY <1>2, <1>3, FS_CardinalityType, FS_AddElement
  <1>5. E!Holds(s, d) = Cardinality(I) /\ E!Holds(Append(s, b), d) = Cardinality(J)
    BY ListCardinality DEF E!Holds
  <1> HIDE DEF I, J, n
  <1> QED BY <1>2, <1>4, <1>5

(* The devices with other counts of references.                            *)
Counts(n) ==
  [d \in E!Ids |-> IF n[d] = 0 THEN E!Free ELSE [dev[d] EXCEPT !.refcnt = n[d]]]
One(d, b) == IF d = b THEN 1 ELSE 0

LEMMA DeviceTypes ==
  ASSUME ListTyped
  PROVE  dev \in [E!Ids -> Devices] /\ \A d \in E!Ids : dev[d] \in Devices
  BY DEF ListTyped, E!TypeOK, Devices

LEMMA Counting ==
  ASSUME ListTyped, DevicesCounted, NEW b \in E!Ids, dev[b].refcnt # 0
  PROVE  /\ E!Ref(dev, b) = Counts([d \in E!Ids |-> dev[d].refcnt + One(d, b)])
         /\ E!Unref(dev, b) = Counts([d \in E!Ids |-> dev[d].refcnt - One(d, b)])
  <1>1. dev \in [E!Ids -> Devices] /\ \A d \in E!Ids : dev[d] \in Devices BY DeviceTypes
  <1>2. \A r \in Devices : r.refcnt \in Nat /\ r = [r EXCEPT !.refcnt = r.refcnt] BY DEF Devices
  <1>3. \A d \in E!Ids : dev[d].refcnt = 0 => dev[d] = E!Free BY DEF DevicesCounted
  <1>4. E!Ref(dev, b) = [d \in E!Ids |-> IF d = b THEN [dev[d] EXCEPT !.refcnt = @ + 1] ELSE dev[d]]
    BY <1>1 DEF E!Ref
  <1>5. E!Unref(dev, b) = [d \in E!Ids |-> IF d = b THEN IF dev[d].refcnt = 1 THEN E!Free
                                            ELSE [dev[d] EXCEPT !.refcnt = @ - 1] ELSE dev[d]]
    BY <1>1 DEF E!Unref
  <1> QED BY <1>1, <1>2, <1>3, <1>4, <1>5 DEF Counts, One

LEMMA Released ==
  ASSUME ListTyped, DevicesCounted, NEW s \in Seq(E!Ids)
  PROVE  E!UnrefAll(dev, s) = Counts([d \in E!Ids |-> dev[d].refcnt - E!Holds(s, d)])
  <1>1. \A d \in E!Ids : dev[d] \in Devices BY DeviceTypes
  <1>2. \A d \in E!Ids : E!Holds(s, d) \in Nat BY HoldsNat
  <1>3. \A d \in E!Ids : dev[d].refcnt \in Nat BY <1>1 DEF Devices
  <1> QED BY <1>2, <1>3 DEF E!UnrefAll, Counts

LEMMA Copied ==
  ASSUME ListTyped, DevicesCounted, NEW s \in Seq(E!Ids)
  PROVE  E!UnrefAll(E!RefAll(dev, s), s) = dev
  <1>1. dev \in [E!Ids -> Devices] /\ \A d \in E!Ids : dev[d] \in Devices BY DeviceTypes
  <1>2. \A r \in Devices : r.refcnt \in Nat /\ r = [r EXCEPT !.refcnt = r.refcnt] BY DEF Devices
  <1>3. \A d \in E!Ids : dev[d].refcnt = 0 => dev[d] = E!Free BY DEF DevicesCounted
  <1>4. \A d \in E!Ids : E!Holds(s, d) \in Nat BY HoldsNat
  <1>5. \A d \in E!Ids : E!RefAll(dev, s)[d] = [dev[d] EXCEPT !.refcnt = @ + E!Holds(s, d)]
    BY DEF E!RefAll
  <1>6. \A d \in E!Ids : E!UnrefAll(E!RefAll(dev, s), s)[d] = dev[d]
    <2> SUFFICES ASSUME NEW d \in E!Ids PROVE E!UnrefAll(E!RefAll(dev, s), s)[d] = dev[d]
      OBVIOUS
    <2>1. E!UnrefAll(E!RefAll(dev, s), s)[d]
            = LET r == [dev[d] EXCEPT !.refcnt = @ + E!Holds(s, d)] IN
                IF r.refcnt = E!Holds(s, d) THEN E!Free
                ELSE [r EXCEPT !.refcnt = @ - E!Holds(s, d)]
      BY <1>5 DEF E!UnrefAll
    <2>2. PICK k \in Nat : k = E!Holds(s, d) BY <1>4
    <2>3. PICK q \in Devices : q = dev[d] BY <1>1
    <2> DEFINE r == [q EXCEPT !.refcnt = @ + k]
    <2>4. r.refcnt = q.refcnt + k /\ q.refcnt \in Nat BY DEF Devices
    <2>5. \A m : [r EXCEPT !.refcnt = m] = [q EXCEPT !.refcnt = m] BY DEF Devices
    <2> HIDE DEF r
    <2>6. /\ r.refcnt = q.refcnt + k /\ q.refcnt \in Nat
          /\ [r EXCEPT !.refcnt = @ - k] = [q EXCEPT !.refcnt = q.refcnt]
      <3>1. r.refcnt - k = q.refcnt BY <2>4
      <3>2. [r EXCEPT !.refcnt = r.refcnt - k] = [q EXCEPT !.refcnt = r.refcnt - k] BY <2>5
      <3> QED BY <2>4, <3>1, <3>2
    <2>7. [r EXCEPT !.refcnt = @ - k] = q BY <1>2, <2>6
    <2>8. r.refcnt = k => q = E!Free BY <1>3, <2>3, <2>6
    <2> QED BY <2>1, <2>2, <2>3, <2>7, <2>8 DEF r
  <1>7. E!UnrefAll(E!RefAll(dev, s), s) = [d \in E!Ids |-> E!UnrefAll(E!RefAll(dev, s), s)[d]]
    BY DEF E!UnrefAll
  <1> QED BY <1>1, <1>6, <1>7

LEMMA ReleasedBut ==
  ASSUME ListTyped, DevicesCounted, NEW s \in Seq(E!Ids), NEW b \in E!Ids, dev[b].refcnt # 0
  PROVE  E!UnrefAll(E!Ref(dev, b), s)
           = Counts([d \in E!Ids |-> dev[d].refcnt + One(d, b) - E!Holds(s, d)])
  <1>1. dev \in [E!Ids -> Devices] /\ \A d \in E!Ids : dev[d] \in Devices BY DeviceTypes
  <1>2. \A r \in Devices : r.refcnt \in Nat /\ r = [r EXCEPT !.refcnt = r.refcnt] BY DEF Devices
  <1>3. \A d \in E!Ids : dev[d].refcnt = 0 => dev[d] = E!Free BY DEF DevicesCounted
  <1>4. \A d \in E!Ids : E!Holds(s, d) \in Nat BY HoldsNat
  <1> DEFINE n == [d \in E!Ids |-> dev[d].refcnt + One(d, b)]
             m == [d \in E!Ids |-> dev[d].refcnt + One(d, b) - E!Holds(s, d)]
  <1>5. E!Ref(dev, b) = Counts(n) BY Counting
  <1>6. \A d \in E!Ids : n[d] \in Nat /\ m[d] = n[d] - E!Holds(s, d)
    BY <1>1, <1>2, <1>4 DEF One
  <1>7. DOMAIN Counts(n) = E!Ids BY DEF Counts
  <1>8. \A d \in E!Ids : n[d] = 0 => dev[d].refcnt = 0 BY <1>1, <1>2 DEF One
  <1> HIDE DEF n, m
  <1>9. \A d \in E!Ids : Counts(n)[d].refcnt = n[d]
    BY <1>1, <1>6 DEF Counts, Devices, E!Free
  <1>10. ASSUME NEW d \in E!Ids
        PROVE  E!UnrefAll(Counts(n), s)[d] = Counts(m)[d]
    <2>1. E!UnrefAll(Counts(n), s)[d] = IF n[d] = E!Holds(s, d) THEN E!Free
            ELSE [Counts(n)[d] EXCEPT !.refcnt = n[d] - E!Holds(s, d)]
      BY <1>9 DEF E!UnrefAll
    <2>2. Counts(m)[d] = IF m[d] = 0 THEN E!Free ELSE [dev[d] EXCEPT !.refcnt = m[d]]
      BY DEF Counts
    <2>3. m[d] = 0 <=> n[d] = E!Holds(s, d) BY <1>4, <1>6
    <2>4. CASE n[d] = 0
      <3>1. Counts(n)[d] = dev[d] BY <1>3, <1>8, <2>4 DEF Counts
      <3> QED BY <1>6, <2>1, <2>2, <2>3, <3>1
    <2>5. CASE n[d] # 0
      <3>1. Counts(n)[d] = [dev[d] EXCEPT !.refcnt = n[d]] BY <2>5 DEF Counts
      <3>2. [Counts(n)[d] EXCEPT !.refcnt = m[d]] = [dev[d] EXCEPT !.refcnt = m[d]]
        BY <1>1, <3>1 DEF Devices
      <3> QED BY <1>6, <2>1, <2>2, <2>3, <3>2
    <2> QED BY <2>4, <2>5
  <1>11. E!UnrefAll(Counts(n), s) = [d \in E!Ids |-> E!UnrefAll(Counts(n), s)[d]]
    BY DEF E!UnrefAll
  <1>12. Counts(m) = [d \in E!Ids |-> Counts(m)[d]] BY DEF Counts
  <1>13. E!UnrefAll(Counts(n), s) = Counts(m) BY <1>10, <1>11, <1>12
  <1> QED BY <1>5, <1>13 DEF m


LEMMA Recounted ==
  ASSUME ListTyped, DevicesCounted, NEW n \in [E!Ids -> Nat],
         \A d \in E!Ids : n[d] # 0 => dev[d].refcnt # 0,
         dev' = Counts(n), \A d \in E!Ids : Refs(d)' = n[d]
  PROVE  /\ dev' \in [E!Ids -> Devices] /\ DevicesCounted'
         /\ \A d \in E!Ids : d \in E!Alive' <=> n[d] # 0
         /\ \A d \in E!Alive' : /\ d \in E!Alive /\ dev'[d].addr = dev[d].addr
                                /\ dev'[d].gen = dev[d].gen /\ dev'[d].cached = dev[d].cached
  <1>0. \A d \in E!Ids : dev[d] \in Devices BY DeviceTypes
  <1>1. \A d \in E!Ids :
          dev'[d] = IF n[d] = 0 THEN E!Free ELSE [dev[d] EXCEPT !.refcnt = n[d]]
    BY DEF Counts
  <1>2. E!Free \in Devices /\ E!Free.refcnt = 0
    BY ListAssumption DEF Devices, E!Free
  <1>3. \A d \in E!Ids : /\ dev'[d] \in Devices /\ dev'[d].refcnt = n[d]
                         /\ n[d] = 0 => dev'[d] = E!Free
                         /\ n[d] # 0 => /\ dev[d].refcnt # 0 /\ dev'[d].addr = dev[d].addr
                                        /\ dev'[d].gen = dev[d].gen
                                        /\ dev'[d].cached = dev[d].cached
    <2> SUFFICES ASSUME NEW d \in E!Ids
                 PROVE  /\ dev'[d] \in Devices /\ dev'[d].refcnt = n[d]
                        /\ n[d] = 0 => dev'[d] = E!Free
                        /\ n[d] # 0 => /\ dev[d].refcnt # 0 /\ dev'[d].addr = dev[d].addr
                                       /\ dev'[d].gen = dev[d].gen
                                       /\ dev'[d].cached = dev[d].cached
      OBVIOUS
    <2>1. CASE n[d] = 0 BY <1>1, <1>2, <2>1
    <2>2. CASE n[d] # 0
      <3>1. dev'[d] = [dev[d] EXCEPT !.refcnt = n[d]] BY <1>1, <2>2
      <3> QED BY <1>0, <2>2, <3>1 DEF Devices
    <2> QED BY <2>1, <2>2
  <1>4. dev' \in [E!Ids -> Devices] BY <1>3 DEF Counts
  <1>5. \A d \in E!Ids : /\ d \in E!Alive' <=> n[d] # 0
                         /\ d \in E!Alive <=> dev[d].refcnt # 0
    BY <1>0, <1>3 DEF E!Alive, Devices
  <1>6. \A d \in E!Alive' : /\ d \in E!Alive /\ dev'[d].addr = dev[d].addr
                            /\ dev'[d].gen = dev[d].gen /\ dev'[d].cached = dev[d].cached
    BY <1>3, <1>5 DEF E!Alive
  <1>7. DevicesCounted'
    <2>1. \A d \in E!Ids : /\ dev'[d].refcnt = Refs(d)'
                           /\ dev'[d].refcnt = 0 => dev'[d] = E!Free
                           /\ dev'[d].refcnt # 0 => dev'[d].addr \in Addrs
      BY <1>3 DEF DevicesCounted
    <2>2. \A d, e \in E!Alive' : dev'[d].addr = dev'[e].addr => d = e
      BY <1>6 DEF DevicesCounted
    <2> QED BY <2>1, <2>2 DEF DevicesCounted, E!Free
  <1> QED BY <1>4, <1>5, <1>6, <1>7

(* A device that is listed has a reference.                                *)
LEMMA Held ==
  ASSUME ListTyped, DevicesCounted
  PROVE  /\ \A i \in DOMAIN discdevs : discdevs[i] \in E!Alive
         /\ \A i \in DOMAIN list : list[i] \in E!Alive
         /\ \A d \in E!Ids : own[d] # 0 \/ d \in handles => d \in E!Alive
         /\ \A d \in E!Ids :
              /\ E!Holds(discdevs, d) \in Nat /\ E!Holds(list, d) \in Nat /\ own[d] \in Nat
              /\ Refs(d) \in Nat /\ dev[d].refcnt = Refs(d) /\ (d \in E!Alive <=> Refs(d) # 0)
  <1>1. /\ discdevs \in Seq(E!Ids) /\ list \in Seq(E!Ids) /\ own \in [E!Ids -> 0 .. MaxRefs]
    BY DEF ListTyped, E!TypeOK
  <1>2. \A d \in E!Ids :
          /\ E!Holds(discdevs, d) \in Nat /\ E!Holds(list, d) \in Nat /\ own[d] \in Nat
          /\ Refs(d) \in Nat /\ dev[d].refcnt = Refs(d) /\ (d \in E!Alive <=> Refs(d) # 0)
    <2> SUFFICES ASSUME NEW d \in E!Ids
                 PROVE  /\ E!Holds(discdevs, d) \in Nat /\ E!Holds(list, d) \in Nat /\ own[d] \in Nat
                        /\ Refs(d) \in Nat /\ dev[d].refcnt = Refs(d)
                        /\ (d \in E!Alive <=> Refs(d) # 0)
      OBVIOUS
    <2>1. E!Holds(discdevs, d) \in Nat /\ E!Holds(list, d) \in Nat BY <1>1, HoldsNat
    <2>2. own[d] \in Nat BY <1>1, ListAssumption
    <2>3. Refs(d) \in Nat BY <2>1, <2>2 DEF Refs
    <2>4. dev[d].refcnt = Refs(d) BY DEF DevicesCounted
    <2> QED BY <2>1, <2>2, <2>3, <2>4 DEF E!Alive
  <1>3. \A d \in E!Ids : E!Holds(discdevs, d) # 0 \/ E!Holds(list, d) # 0 \/ own[d] # 0 \/ d \in handles
          => d \in E!Alive
    BY <1>2 DEF Refs
  <1>4. \A i \in DOMAIN discdevs : discdevs[i] \in E!Ids /\ E!Holds(discdevs, discdevs[i]) # 0
    <2>1. \A i \in DOMAIN discdevs : discdevs[i] \in E!Ids BY <1>1
    <2> QED BY <1>1, <2>1, HoldsNat
  <1>5. \A i \in DOMAIN list : list[i] \in E!Ids /\ E!Holds(list, list[i]) # 0
    <2>1. \A i \in DOMAIN list : list[i] \in E!Ids BY <1>1
    <2> QED BY <1>1, <2>1, HoldsNat
  <1> QED BY <1>2, <1>3, <1>4, <1>5

LEMMA SameListing ==
  ASSUME NEW dv, NEW dw, NEW g, NEW s,
         \A i \in DOMAIN s : dw[s[i]].addr = dv[s[i]].addr /\ dw[s[i]].gen = dv[s[i]].gen
  PROVE  /\ Listing(dw, s) = Listing(dv, s)
         /\ UpToDate(dv, g, s) => UpToDate(dw, g, s)
         /\ OfNow(dv, g, s) => OfNow(dw, g, s)
  BY DEF Listing, UpToDate, OfNow

(* The program has another number of references.                           *)
LEMMA ProgramStep ==
  ASSUME ListInv, scan = "no",
         UNCHANGED <<gen, sysfs, unplugged, throughout, relate, descriptors, scan, todo, discdevs, moved>>,
         NEW n \in [E!Ids -> Nat], \A d \in E!Ids : n[d] # 0 => dev[d].refcnt # 0,
         dev' = Counts(n), \A d \in E!Ids : Refs(d)' = n[d],
         own' \in [E!Ids -> 0 .. MaxRefs], handles' \subseteq E!Ids,
         (list' = list /\ fresh' = fresh) \/ (list' = <<>> /\ fresh' = FALSE)
  PROVE  ListInv'
  <1> USE DEF ListInv
  <1>1. /\ dev' \in [E!Ids -> Devices] /\ DevicesCounted'
        /\ \A d \in E!Alive' : /\ d \in E!Alive /\ dev'[d].addr = dev[d].addr
                               /\ dev'[d].gen = dev[d].gen /\ dev'[d].cached = dev[d].cached
    BY Recounted
  <1>2. ListTyped'
    <2>1. list' \in Seq(E!Ids) /\ fresh' \in BOOLEAN
      <3>1. list \in Seq(E!Ids) /\ fresh \in BOOLEAN BY DEF ListTyped, E!TypeOK
      <3>2. <<>> \in Seq(E!Ids) OBVIOUS
      <3> QED BY <3>1, <3>2
    <2>2. E!TypeOK' BY <1>1, <2>1 DEF ListTyped, E!TypeOK, Devices, E!Ids
    <2> QED BY <2>1, <2>2 DEF ListTyped, E!Ids
  <1>3. Scan' BY DEF Scan, E!AllAttached, E!Attached
  <1>4. Cached' BY <1>1 DEF Cached
  <1>5. AllFound'
    <2>1. ~Scanning' BY DEF Scanning
    <2>2. CASE ~fresh' BY <2>1, <2>2 DEF AllFound
    <2>3. CASE fresh'
      <3>1. list' = list /\ fresh BY <2>3
      <3>2. \A i \in DOMAIN list : list[i] \in E!Alive'
        <4> SUFFICES ASSUME NEW i \in DOMAIN list PROVE list[i] \in E!Alive' OBVIOUS
        <4>1. list \in Seq(E!Ids) /\ discdevs \in Seq(E!Ids) BY DEF ListTyped, E!TypeOK
        <4>2. PICK d \in E!Ids : d = list[i] BY <4>1
        <4>3. E!Holds(list, d) \in Nat \ {0} /\ E!Holds(discdevs, d) \in Nat
          BY <4>1, <4>2, HoldsNat
        <4>4. Refs(d)' # 0 BY <3>1, <4>3, ListAssumption DEF Refs, E!Holds
        <4> QED BY <4>2, <4>4, Recounted
      <3>3. \A i \in DOMAIN list : /\ dev'[list[i]].addr = dev[list[i]].addr
                                   /\ dev'[list[i]].gen = dev[list[i]].gen
        BY <1>1, <3>2
      <3>4. /\ Listing(dev', list) = Listing(dev, list)
            /\ UpToDate(dev, gen, list) => UpToDate(dev', gen, list)
            /\ OfNow(dev, gen, list) => OfNow(dev', gen, list)
        BY <3>3, SameListing
      <3> QED BY <2>1, <3>1, <3>4 DEF AllFound
    <2> QED BY <2>2, <2>3 DEF ListTyped
  <1> QED BY <1>1, <1>2, <1>3, <1>4, <1>5


(* There is a free block: no two devices have the same address.            *)
LEMMA FreeBlock ==
  ASSUME ListTyped, DevicesCounted, NEW a \in Addrs, \A d \in E!Alive : dev[d].addr # a
  PROVE  /\ E!Min(E!Ids \ E!Alive) \in E!Ids \ E!Alive
         /\ dev[E!Min(E!Ids \ E!Alive)] = E!Free
  <1>1. IsFiniteSet(Addrs) /\ Cardinality(Addrs) \in Nat
    BY ListAssumption, FS_CardinalityType
  <1>2. E!Ids = 1 .. Cardinality(Addrs) + 1 /\ E!Ids \subseteq Nat
    BY <1>1, ListCardinality DEF E!Ids
  <1>3. IsFiniteSet(E!Ids) /\ Cardinality(E!Ids) = Cardinality(Addrs) + 1
    BY <1>1, <1>2, FS_Interval
  <1>4. E!Ids \ E!Alive # {}
    <2> SUFFICES ASSUME E!Alive = E!Ids PROVE FALSE BY DEF E!Alive
    <2> DEFINE f == [d \in E!Ids |-> dev[d].addr]
    <2>1. f \in [E!Ids -> Addrs]
      <3>1. \A d \in E!Ids : dev[d] \in Devices BY DeviceTypes
      <3> QED BY <3>1 DEF DevicesCounted, E!Alive, Devices
    <2>2. Cardinality(Addrs) < Cardinality(E!Ids) BY <1>1, <1>3
    <2>3. \E d, e \in E!Ids : d # e /\ f[d] = f[e]
      <3> HIDE DEF f
      <3> QED BY <1>1, <1>3, <2>1, <2>2, FS_PigeonHole
    <2> QED BY <2>3 DEF DevicesCounted
  <1>5. E!Min(E!Ids \ E!Alive) \in E!Ids \ E!Alive BY <1>2, <1>4, ListMin
  <1>6. \A d \in E!Ids \ E!Alive : dev[d].refcnt = 0
    BY DeviceTypes DEF E!Alive, Devices
  <1> QED BY <1>5, <1>6 DEF DevicesCounted

(* The block b has one more reference.                                     *)
LEMMA Entered ==
  ASSUME ListTyped, DevicesCounted, NEW b \in E!Ids, NEW r \in Devices,
         dev' = [dev EXCEPT ![b] = r], r.refcnt = dev[b].refcnt + 1, r.addr \in Addrs,
         \A e \in E!Alive : e # b => dev[e].addr # r.addr,
         \A d \in E!Ids : Refs(d)' = Refs(d) + One(d, b)
  PROVE  /\ dev' \in [E!Ids -> Devices] /\ DevicesCounted'
         /\ E!Alive' = E!Alive \cup {b} /\ dev'[b] = r
         /\ \A d \in E!Ids : d # b => dev'[d] = dev[d]
  <1>0. dev \in [E!Ids -> Devices] /\ \A d \in E!Ids : dev[d] \in Devices BY DeviceTypes
  <1>1. dev' \in [E!Ids -> Devices] BY <1>0
  <1>2. dev'[b] = r /\ \A d \in E!Ids : d # b => dev'[d] = dev[d] BY <1>0
  <1>3. \A d \in E!Ids : dev[d].refcnt \in Nat BY <1>0 DEF Devices
  <1>4. E!Alive' = E!Alive \cup {b}
    BY <1>2, <1>3 DEF E!Alive, E!Ids
  <1>5. DevicesCounted'
    <2>1. \A d \in E!Ids : /\ dev'[d].refcnt = Refs(d)'
                           /\ dev'[d].refcnt = 0 => dev'[d] = E!Free
                           /\ dev'[d].refcnt # 0 => dev'[d].addr \in Addrs
      <3> SUFFICES ASSUME NEW d \in E!Ids
                   PROVE  /\ dev'[d].refcnt = Refs(d)'
                          /\ dev'[d].refcnt = 0 => dev'[d] = E!Free
                          /\ dev'[d].refcnt # 0 => dev'[d].addr \in Addrs
        OBVIOUS
      <3>1. dev[d].refcnt = Refs(d) /\ dev[d].refcnt \in Nat BY <1>3 DEF DevicesCounted
      <3>2. CASE d = b BY <1>2, <3>1, <3>2 DEF One
      <3>3. CASE d # b BY <1>2, <3>1, <3>3 DEF One, DevicesCounted
      <3> QED BY <3>2, <3>3
    <2>2. \A d, e \in E!Alive' : dev'[d].addr = dev'[e].addr => d = e
      <3>1. \A d \in E!Alive : d # b => dev'[d].addr = dev[d].addr BY <1>2 DEF E!Alive
      <3> QED BY <1>2, <1>4, <3>1 DEF DevicesCounted
    <2> QED BY <2>1, <2>2 DEF DevicesCounted, E!Free, E!Ids
  <1> QED BY <1>1, <1>2, <1>4, <1>5

(* The device d at the address a joins those that are found.               *)
LEMMA Joined ==
  ASSUME ListInv, Scanning, NEW a \in todo, NEW d \in E!Ids,
         E!DiscoveredDevsAppend(d, TRUE), todo' = todo \ {a},
         UNCHANGED <<gen, sysfs, unplugged, throughout, scan, fresh, list, own, handles>>,
         NEW r \in Devices, dev' = [dev EXCEPT ![d] = r], r.addr = a,
         r.refcnt = dev[d].refcnt + 1, sysfs = "darwin" => r.gen = gen[a],
         d \in E!Alive => dev[d].addr = a,
         \A e \in E!Alive : e # d => dev[e].addr # a,
         E!Attached(a) \/ unplugged,
         relate' \in {-1, 0, 1}, descriptors' \in {0, 1}, scan = "usbfs" => relate' = relate,
         descriptors' = descriptors \/ descriptors = -1, descriptors' = 0 => r.cached,
         scan = "sysfs" => sysfs # "old"
  PROVE  ListInv'
  <1> USE DEF ListInv
  <1>1. /\ discdevs \in Seq(E!Ids) /\ todo \subseteq Addrs /\ a \in Addrs
        /\ unplugged \in BOOLEAN /\ moved \in BOOLEAN
    BY DEF ListTyped, E!TypeOK
  <1>2. /\ discdevs' = Append(discdevs, d) /\ discdevs' \in Seq(E!Ids)
        /\ moved' \in BOOLEAN /\ (moved' => moved \/ scan = "usbfs")
    BY <1>1 DEF E!DiscoveredDevsAppend
  <1>3. \A e \in E!Ids : Refs(e)' = Refs(e) + One(e, d)
    <2> SUFFICES ASSUME NEW e \in E!Ids PROVE Refs(e)' = Refs(e) + One(e, d) OBVIOUS
    <2>1. E!Holds(discdevs', e) = E!Holds(discdevs, e) + One(e, d)
      BY <1>1, <1>2, HoldsAppend DEF One
    <2>2. Refs(e)' = E!Holds(discdevs, e) + One(e, d) + E!Holds(list, e) + own[e]
                       + (IF e \in handles THEN 1 ELSE 0)
      BY <2>1 DEF Refs, E!Holds
    <2>3. E!Holds(discdevs, e) \in Nat /\ E!Holds(list, e) \in Nat /\ own[e] \in Nat
      BY Held
    <2> QED BY <2>2, <2>3 DEF Refs, One
  <1>4. /\ dev' \in [E!Ids -> Devices] /\ DevicesCounted'
        /\ E!Alive' = E!Alive \cup {d} /\ dev'[d] = r
        /\ \A e \in E!Ids : e # d => dev'[e] = dev[e]
    BY <1>1, <1>3, Entered
  <1>5. /\ \A e \in E!Alive : /\ dev'[e].addr = dev[e].addr
                              /\ e # d => dev'[e].gen = dev[e].gen
        /\ dev'[d].addr = a /\ (sysfs = "darwin" => dev'[d].gen = gen[a])
    BY <1>4 DEF E!Alive
  <1>6. Cached' BY <1>4 DEF Cached, E!Alive
  <1>7. ListTyped'
    <2>1. E!TypeOK' BY <1>1, <1>2, <1>4 DEF ListTyped, E!TypeOK, Devices, E!Ids
    <2>2. handles' \subseteq E!Ids /\ fresh' \in BOOLEAN /\ unplugged' \in BOOLEAN
      BY <1>1 DEF ListTyped
    <2> QED BY <1>2, <2>1, <2>2 DEF ListTyped, E!Ids
  <1>8. Scan'
    BY <1>2 DEF Scan, Scanning, E!AllAttached, E!Attached
  <1>9. \A i \in DOMAIN discdevs : discdevs[i] \in E!Alive BY Held
  <1>10. /\ DOMAIN discdevs' = 1 .. Len(discdevs) + 1 /\ DOMAIN discdevs = 1 .. Len(discdevs)
         /\ \A i \in DOMAIN discdevs : discdevs'[i] = discdevs[i]
         /\ discdevs'[Len(discdevs) + 1] = d /\ Len(discdevs) \in Nat
    BY <1>1, <1>2
  <1>11. /\ \A i \in DOMAIN discdevs : dev'[discdevs'[i]].addr = dev[discdevs[i]].addr
         /\ dev'[discdevs'[Len(discdevs) + 1]].addr = a
    BY <1>9, <1>10, <1>5
  <1>12. Listing(dev', discdevs') = Listing(dev, discdevs) \cup {a}
    BY <1>10, <1>11 DEF Listing
  <1>13. AllFound'
    <2>1. throughout' \subseteq todo' \cup Listing(dev', discdevs')
      BY <1>12 DEF AllFound
    <2>2. ASSUME ~unplugged
          PROVE  /\ UpToDate(dev', gen, discdevs')
                 /\ todo' \subseteq E!AllAttached \ Listing(dev', discdevs')
                 /\ sysfs = "darwin" => OfNow(dev', gen, discdevs')
      <3>1. /\ UpToDate(dev, gen, discdevs)
            /\ sysfs = "darwin" => OfNow(dev, gen, discdevs)
            /\ todo \subseteq E!AllAttached \ Listing(dev, discdevs)
        BY <2>2 DEF AllFound
      <3>2. \A i \in DOMAIN discdevs : dev[discdevs[i]].addr # a
        BY <3>1 DEF Listing
      <3>3. \A i \in DOMAIN discdevs : dev'[discdevs'[i]].gen = dev[discdevs[i]].gen
        BY <1>9, <1>10, <1>5, <3>2
      <3>4. gen[a] % 2 = 1 BY <2>2 DEF E!Attached
      <3>5. \A i \in DOMAIN discdevs' : i \in DOMAIN discdevs \/ i = Len(discdevs) + 1
        BY <1>10
      <3> DEFINE of(i) == dev'[discdevs'[i]]
      <3>6. \A i \in DOMAIN discdevs :
              /\ of(i).addr = dev[discdevs[i]].addr /\ of(i).addr # a
              /\ of(i).addr \in Addrs /\ gen[of(i).addr] % 2 = 1
              /\ of(i).gen = dev[discdevs[i]].gen
        BY <1>11, <3>1, <3>2, <3>3 DEF UpToDate
      <3>7. \A i, j \in DOMAIN discdevs : i # j => of(i).addr # of(j).addr
        BY <3>1, <3>6 DEF UpToDate
      <3>8. of(Len(discdevs) + 1).addr = a /\ (sysfs = "darwin" => of(Len(discdevs) + 1).gen = gen[a])
        BY <1>10, <1>11, <1>5
      <3>9. UpToDate(dev', gen, discdevs')
        <4>1. \A i \in DOMAIN discdevs' : of(i).addr \in Addrs /\ gen[of(i).addr] % 2 = 1
          BY <1>1, <3>4, <3>5, <3>6, <3>8
        <4>2. \A i, j \in DOMAIN discdevs' : i # j => of(i).addr # of(j).addr
          BY <3>5, <3>6, <3>7, <3>8
        <4> QED BY <4>1, <4>2 DEF UpToDate
      <3>10. sysfs = "darwin" => OfNow(dev', gen, discdevs')
        <4> SUFFICES ASSUME sysfs = "darwin", NEW i \in DOMAIN discdevs'
                     PROVE  of(i).gen = gen[of(i).addr]
          BY DEF OfNow
        <4>1. CASE i \in DOMAIN discdevs BY <3>1, <3>6, <4>1 DEF OfNow
        <4>2. CASE i = Len(discdevs) + 1 BY <3>8, <4>2
        <4> QED BY <3>5, <4>1, <4>2
      <3>11. todo' \subseteq E!AllAttached \ Listing(dev', discdevs')
        BY <1>12, <3>1
      <3> QED BY <3>9, <3>10, <3>11
    <2>3. ~fresh' BY DEF Scan, Scanning
    <2> QED BY <2>1, <2>2, <2>3 DEF AllFound, E!AllAttached, E!Attached
  <1> QED BY <1>7, <1>8, <1>13, <1>4, <1>6

(* An enumeration ends, and its devices lose the references of the array.  *)
LEMMA Ended ==
  ASSUME ListInv, Scanning, dev' = E!UnrefAll(dev, discdevs), E!NoScan,
         UNCHANGED <<gen, sysfs, unplugged, throughout, fresh, list, own, handles>>,
         relate' \in {-1, 0, 1}, descriptors' \in {-1, 0, 1},
         descriptors' = descriptors \/ descriptors = -1
  PROVE  ListInv'
  <1> USE DEF ListInv
  <1>0. /\ discdevs \in Seq(E!Ids) /\ \A d \in E!Ids : E!Holds(discdevs, d) \in Nat
        /\ fresh = FALSE /\ list = <<>>
    <2>1. discdevs \in Seq(E!Ids) BY DEF ListTyped, E!TypeOK
    <2>2. fresh = FALSE /\ list = <<>> BY DEF Scan, Scanning, ListTyped
    <2> QED BY <2>1, <2>2, HoldsNat
  <1>1. /\ dev' = E!UnrefAll(dev, discdevs) /\ scan' = "no" /\ todo' = {}
        /\ discdevs' = <<>> /\ moved' = FALSE
    BY DEF E!NoScan
  <1> DEFINE n == [d \in E!Ids |-> dev[d].refcnt - E!Holds(discdevs, d)]
  <1>2. dev' = Counts(n)
    <2>1. E!UnrefAll(dev, discdevs) = Counts(n) BY <1>0, Released
    <2> QED BY <1>1, <2>1
  <1>3. \A d \in E!Ids : /\ n[d] \in Nat /\ Refs(d)' = n[d]
                         /\ n[d] # 0 => dev[d].refcnt # 0
    <2> SUFFICES ASSUME NEW d \in E!Ids
                 PROVE  n[d] \in Nat /\ Refs(d)' = n[d] /\ (n[d] # 0 => dev[d].refcnt # 0)
      OBVIOUS
    <2>1. /\ E!Holds(discdevs, d) \in Nat /\ E!Holds(list, d) \in Nat /\ own[d] \in Nat
          /\ dev[d].refcnt = Refs(d)
      BY Held
    <2>2. E!Holds(discdevs', d) = 0 BY <1>1, HoldsNone
    <2>3. Refs(d)' = 0 + E!Holds(list, d) + own[d] + (IF d \in handles THEN 1 ELSE 0)
      BY <2>2 DEF Refs, E!Holds
    <2>4. PICK h \in Nat : h = E!Holds(discdevs, d) BY <2>1
    <2>5. PICK r \in Nat : r = 0 + E!Holds(list, d) + own[d] + (IF d \in handles THEN 1 ELSE 0)
      BY <2>1
    <2>6. dev[d].refcnt = h + r BY <2>1, <2>4, <2>5 DEF Refs
    <2>7. n[d] = r BY <2>4, <2>6
    <2>8. Refs(d)' = r BY <2>3, <2>5
    <2> HIDE DEF n
    <2> QED BY <2>6, <2>7, <2>8
  <1>4. n \in [E!Ids -> Nat] BY <1>3
  <1> HIDE DEF n
  <1>5. /\ dev' \in [E!Ids -> Devices] /\ DevicesCounted'
        /\ \A d \in E!Alive' : d \in E!Alive /\ dev'[d].cached = dev[d].cached
    BY <1>2, <1>3, <1>4, Recounted
  <1>6. ListTyped'
    <2>1. <<>> \in Seq(E!Ids) OBVIOUS
    <2>2. E!TypeOK' BY <1>1, <1>5, <2>1 DEF ListTyped, E!TypeOK, Devices, E!Ids
    <2> QED BY <1>1, <2>2 DEF ListTyped, E!Ids
  <1>7. Scan' BY <1>0, <1>1 DEF Scan, E!AllAttached, E!Attached
  <1>8. Cached' BY <1>5 DEF Cached
  <1>9. AllFound' BY <1>0, <1>1 DEF AllFound, Scanning
  <1> QED BY <1>5, <1>6, <1>7, <1>8, <1>9

(* An enumeration ends with an error.                                      *)
LEMMA Failed ==
  ASSUME ListInv, Scanning, E!Fail(dev),
         UNCHANGED <<gen, sysfs, unplugged, throughout, fresh, list, own, handles>>,
         relate' \in {-1, 0, 1}, descriptors' \in {-1, 0, 1},
         scan = "usbfs" => relate' = relate,
         descriptors' = descriptors \/ descriptors = -1
  PROVE  ListInv'
  <1> USE DEF ListInv
  <1>0. /\ discdevs \in Seq(E!Ids) /\ \A d \in E!Ids : E!Holds(discdevs, d) \in Nat
        /\ fresh = FALSE /\ list = <<>>
    <2>1. discdevs \in Seq(E!Ids) BY DEF ListTyped, E!TypeOK
    <2>2. fresh = FALSE /\ list = <<>> BY DEF Scan, Scanning, ListTyped
    <2> QED BY <2>1, <2>2, HoldsNat
  <1>1. CASE moved
    <2>1. scan' = "wild" /\ UNCHANGED <<dev, todo, discdevs, moved>> BY <1>1 DEF E!Fail
    <2>2. scan = "usbfs" BY <1>1 DEF Scan, Scanning
    <2>3. ListTyped' BY <2>1 DEF ListTyped, E!TypeOK, E!Ids
    <2>4. DevicesCounted'
      BY <2>1 DEF DevicesCounted, Refs, E!Holds, E!Alive, E!Ids, E!Free
    <2>5. Scan' BY <1>0, <2>1, <2>2 DEF Scan, E!AllAttached, E!Attached
    <2>6. Cached' BY <2>1 DEF Cached, E!Alive, E!Ids
    <2>7. AllFound' BY <1>0, <2>1 DEF AllFound, Scanning
    <2> QED BY <2>3, <2>4, <2>5, <2>6, <2>7
  <1>2. CASE ~moved
    <2>1. dev' = E!UnrefAll(dev, discdevs) /\ E!NoScan BY <1>2 DEF E!Fail
    <2> QED BY <2>1, Ended
  <1> QED BY <1>1, <1>2 DEF ListTyped


(* The entry at the address a is of a known device.                        *)
LEMMA ExistingFound ==
  ASSUME ListInv, scan \in {"sysfs", "usbfs"}, NEW a \in todo, E!EnumerateExisting(a),
         UNCHANGED <<gen, sysfs, unplugged, throughout, fresh, list, own, handles>>,
         relate' \in {-1, 0, 1}, descriptors' \in {-1, 0, 1}, scan = "usbfs" => relate' = relate,
         descriptors' = descriptors \/ descriptors = -1,
         E!Attached(a) \/ unplugged, scan = "sysfs" => sysfs # "old"
  PROVE  ListInv'
  <1> USE DEF ListInv
  <1>1. Scanning /\ sysfs # "darwin" BY DEF Scanning, Scan
  <1>2. PICK d \in E!Alive :
          /\ dev[d].addr = a
          /\ \/ /\ E!DiscoveredDevsAppend(d, TRUE)
                /\ dev' = E!Ref(dev, d)
                /\ todo' = todo \ {a} /\ UNCHANGED scan
             \/ E!Fail(dev)
    BY DEF E!EnumerateExisting
  <1>3. CASE E!Fail(dev) BY <1>1, <1>3, Failed
  <1>4. CASE /\ E!DiscoveredDevsAppend(d, TRUE) /\ dev' = E!Ref(dev, d)
             /\ todo' = todo \ {a} /\ UNCHANGED scan
    <2> DEFINE r == [dev[d] EXCEPT !.refcnt = @ + 1]
    <2>1. d \in E!Ids /\ dev[d] \in Devices /\ dev \in [E!Ids -> Devices]
      BY DeviceTypes DEF E!Alive
    <2>2. /\ r \in Devices /\ r.refcnt = dev[d].refcnt + 1 /\ r.addr = a
          /\ r.cached = dev[d].cached
      BY <1>2, <2>1 DEF Devices
    <2>3. dev' = [dev EXCEPT ![d] = r] BY <1>4, <2>1 DEF E!Ref
    <2>4. \A e \in E!Alive : e # d => dev[e].addr # a
      BY <1>2 DEF DevicesCounted
    <2>5. /\ descriptors' = descriptors /\ descriptors' \in {0, 1}
          /\ descriptors' = 0 => r.cached
      BY <2>2 DEF Cached
    <2> HIDE DEF r, ListInv
    <2>6. /\ E!DiscoveredDevsAppend(d, TRUE) /\ todo' = todo \ {a}
          /\ UNCHANGED <<gen, sysfs, unplugged, throughout, scan, fresh, list, own, handles>>
      BY <1>4
    <2>7. Scanning /\ (sysfs = "darwin" => r.gen = gen[a]) BY <1>1
    <2>8. /\ r \in Devices /\ r.refcnt = dev[d].refcnt + 1 /\ r.addr = a /\ dev[d].addr = a
          /\ descriptors' \in {0, 1} /\ (descriptors' = 0 => r.cached)
      BY <1>2, <2>2, <2>5
    <2> QED BY <2>1, <2>3, <2>4, <2>6, <2>7, <2>8, Joined
  <1> QED BY <1>2, <1>3, <1>4

(* A device that is made, found and released by who made it has the        *)
(* reference of the array; one that is only released is gone.              *)
LEMMA Made ==
  ASSUME NEW devs \in [E!Ids -> Devices], NEW d \in E!Ids, NEW r \in Devices, r.refcnt = 1
  PROVE  /\ E!Unref(E!Ref([devs EXCEPT ![d] = r], d), d) = [devs EXCEPT ![d] = r]
         /\ devs[d] = E!Free => E!Unref([devs EXCEPT ![d] = r], d) = devs
  <1> DEFINE q == [r EXCEPT !.refcnt = r.refcnt + 1]
             alloc == [devs EXCEPT ![d] = r]
             found == [devs EXCEPT ![d] = q]
  <1>1. q.refcnt = 2 /\ [q EXCEPT !.refcnt = q.refcnt - 1] = r
    <2>1. q.refcnt = 2 BY DEF Devices
    <2>2. [q EXCEPT !.refcnt = 1] = [r EXCEPT !.refcnt = 1] BY DEF Devices
    <2>3. [r EXCEPT !.refcnt = 1] = r BY DEF Devices
    <2>4. q.refcnt - 1 = 1 BY <2>1
    <2> HIDE DEF q
    <2> QED BY <2>1, <2>2, <2>3, <2>4
  <1>2. alloc[d] = r /\ found[d] = q OBVIOUS
  <1>3. E!Ref(alloc, d) = found BY <1>2 DEF E!Ref
  <1>4. E!Unref(found, d) = [found EXCEPT ![d] = [q EXCEPT !.refcnt = q.refcnt - 1]]
    <2> HIDE DEF q, found
    <2>1. E!Unref(found, d) = [found EXCEPT ![d].refcnt = @ - 1] BY <1>1, <1>2 DEF E!Unref
    <2>2. [found EXCEPT ![d].refcnt = @ - 1]
            = [found EXCEPT ![d] = [found[d] EXCEPT !.refcnt = found[d].refcnt - 1]]
      OBVIOUS
    <2> QED BY <1>2, <2>1, <2>2
  <1>5. [found EXCEPT ![d] = r] = alloc OBVIOUS
  <1>6. E!Unref(E!Ref(alloc, d), d) = alloc
    <2> HIDE DEF q, found, alloc
    <2> QED BY <1>1, <1>3, <1>4, <1>5
  <1>7. E!Unref(alloc, d) = [alloc EXCEPT ![d] = E!Free] BY <1>2 DEF E!Unref
  <1>8. devs[d] = E!Free => [alloc EXCEPT ![d] = E!Free] = devs OBVIOUS
  <1> QED BY <1>6, <1>7, <1>8

(* The entry at the address a is of a device that is not known.            *)
LEMMA NewFound ==
  ASSUME ListInv, scan \in {"sysfs", "usbfs"}, NEW a \in todo, NEW named \in BOOLEAN,
         E!EnumerateNew(a, named, descriptors'),
         UNCHANGED <<gen, sysfs, unplugged, throughout, fresh, list, own, handles>>,
         relate' \in {-1, 0, 1}, descriptors' \in {-1, 0, 1}, scan = "usbfs" => relate' = relate,
         descriptors' = descriptors \/ descriptors = -1, named => descriptors' # -1,
         scan = "sysfs" => sysfs # "old"
  PROVE  ListInv'
  <1> USE DEF ListInv
  <1> DEFINE d == E!Min(E!Ids \ E!Alive)
             r == [addr |-> a, gen |-> gen[a], refcnt |-> 1, cached |-> descriptors' = 0]
             alloc == [dev EXCEPT ![d] = r]
  <1>0. /\ a \in Addrs /\ gen[a] \in 0 .. MaxGen /\ (\A e \in E!Alive : dev[e].addr # a)
        /\ Scanning /\ sysfs # "darwin"
    BY DEF ListTyped, E!TypeOK, E!EnumerateNew, Scanning, Scan
  <1>1. d \in E!Ids /\ d \notin E!Alive /\ dev[d] = E!Free
    BY <1>0, FreeBlock
  <1>2. dev \in [E!Ids -> Devices] BY DeviceTypes
  <1>3. /\ r \in Devices /\ r.addr = a /\ r.refcnt = 1 /\ r.gen = gen[a]
        /\ descriptors' = 0 => r.cached
        /\ dev[d].refcnt = 0
    <2>1. E!Free.refcnt = 0 BY DEF E!Free
    <2>2. (descriptors' = 0) \in BOOLEAN OBVIOUS
    <2>3. PICK c \in BOOLEAN : c = (descriptors' = 0) BY <2>2
    <2>4. PICK g \in 0 .. MaxGen : g = gen[a] BY <1>0
    <2>5. r = [addr |-> a, gen |-> g, refcnt |-> 1, cached |-> c] BY <2>3, <2>4
    <2> HIDE DEF r
    <2>6. /\ r \in Devices /\ r.addr = a /\ r.refcnt = 1 /\ r.gen = g
          /\ r.cached = c
      BY <1>0, <2>5 DEF Devices
    <2> QED BY <1>1, <2>1, <2>3, <2>4, <2>6
  <1>4. E!Unref(alloc, d) = dev /\ E!Unref(E!Ref(alloc, d), d) = alloc
    <2> HIDE DEF r, d
    <2> QED BY <1>1, <1>2, <1>3, Made
  <1>6. \/ /\ E!InitializeDevice(a, named, descriptors')
           /\ E!DiscoveredDevsAppend(d, TRUE)
           /\ dev' = E!Unref(E!Ref(alloc, d), d)
           /\ todo' = todo \ {a} /\ UNCHANGED scan
        \/ E!Fail(E!Unref(alloc, d))
    BY DEF E!EnumerateNew
  <1>7. CASE E!Fail(E!Unref(alloc, d))
    <2>1. E!Fail(dev) BY <1>4, <1>7
    <2> QED BY <1>0, <2>1, Failed
  <1>8. CASE /\ E!InitializeDevice(a, named, descriptors') /\ E!DiscoveredDevsAppend(d, TRUE)
             /\ dev' = E!Unref(E!Ref(alloc, d), d) /\ todo' = todo \ {a} /\ UNCHANGED scan
    <2>1. E!Attached(a) /\ descriptors' \in {0, 1} BY <1>8 DEF E!InitializeDevice
    <2>2. dev' = [dev EXCEPT ![d] = r] BY <1>4, <1>8
    <2>3. E!DiscoveredDevsAppend(d, TRUE) /\ todo' = todo \ {a} /\ scan' = scan BY <1>8
    <2>4. r.refcnt = dev[d].refcnt + 1 BY <1>3
    <2>5. /\ E!Attached(a) \/ unplugged
          /\ sysfs = "darwin" => r.gen = gen[a]
          /\ d \in E!Alive => dev[d].addr = a
          /\ \A e \in E!Alive : e # d => dev[e].addr # a
      BY <1>0, <1>1, <2>1
    <2>6. /\ UNCHANGED <<gen, sysfs, unplugged, throughout, scan, fresh, list, own, handles>>
          /\ d \in E!Ids /\ r \in Devices /\ r.addr = a
      BY <1>1, <1>3, <2>3
    <2> HIDE DEF r, alloc, d
    <2> QED BY <1>0, <1>3, <2>1, <2>2, <2>3, <2>4, <2>5, <2>6, Joined
  <1> QED BY <1>6, <1>7, <1>8

LEMMA Typed ==
  ASSUME ListInv
  PROVE  /\ gen \in [Addrs -> 0 .. MaxGen] /\ todo \subseteq Addrs
         /\ relate \in {-1, 0, 1} /\ descriptors \in {-1, 0, 1}
         /\ scan \in {"no", "sysfs", "usbfs", "iokit", "wild"}
         /\ dev \in [E!Ids -> Devices] /\ (\A d \in E!Ids : dev[d] \in Devices)
         /\ discdevs \in Seq(E!Ids) /\ list \in Seq(E!Ids) /\ own \in [E!Ids -> 0 .. MaxRefs]
         /\ handles \subseteq E!Ids /\ fresh \in BOOLEAN /\ moved \in BOOLEAN
         /\ unplugged \in BOOLEAN
  BY DEF ListInv, ListTyped, E!TypeOK, Devices

(* The devices and all that counts them stay.                              *)
LEMMA SameDevices ==
  ASSUME DevicesCounted, UNCHANGED <<dev, discdevs, list, own, handles>>
  PROVE  DevicesCounted' /\ E!Alive' = E!Alive
  BY DEF DevicesCounted, Refs, E!Holds, E!Alive, E!Ids, E!Free


LEMMA ListInit == ASSUME E!Init PROVE ListInv
  <1> USE DEF E!Init
  <1>0. /\ MaxGen \in Nat \ {0} /\ MaxRefs \in Nat /\ 0 \notin Addrs
    BY ListAssumption
  <1>1. <<>> \in Seq(E!Ids) /\ DOMAIN <<>> = {} OBVIOUS
  <1>2. E!Free \in Devices /\ E!Free.refcnt = 0 BY <1>0 DEF E!Free, Devices
  <1>3. dev \in [E!Ids -> Devices] BY <1>2
  <1>4. E!Alive = {} BY <1>2 DEF E!Alive
  <1>5. ListTyped
    <2>1. gen \in [Addrs -> 0 .. MaxGen] BY <1>0
    <2>2. relate \in {-1, 0, 1} /\ descriptors \in {-1, 0, 1} OBVIOUS
    <2>3. own \in [E!Ids -> 0 .. MaxRefs] BY <1>0
    <2>4. E!TypeOK BY <1>1, <1>3, <2>1, <2>2, <2>3 DEF E!TypeOK, Devices
    <2> QED BY <2>4 DEF ListTyped
  <1>6. DevicesCounted
    <2>1. \A d \in E!Ids : Refs(d) = 0
      <3> SUFFICES ASSUME NEW d \in E!Ids PROVE Refs(d) = 0 OBVIOUS
      <3>1. E!Holds(discdevs, d) = 0 /\ E!Holds(list, d) = 0 BY HoldsNone
      <3> QED BY <3>1 DEF Refs
    <2>2. \A d \in E!Ids : dev[d] = E!Free /\ dev[d].refcnt = 0 BY <1>2
    <2> QED BY <1>4, <2>1, <2>2 DEF DevicesCounted
  <1>7. Scan BY DEF Scan
  <1>8. Cached BY <1>4 DEF Cached
  <1>9. AllFound BY DEF AllFound, Scanning
  <1> QED BY <1>5, <1>6, <1>7, <1>8, <1>9 DEF ListInv

(* A device comes or goes at the address a.                                *)
LEMMA Plugged ==
  ASSUME ListInv, NEW a \in Addrs, E!Plug(a) \/ E!Unplug(a)
  PROVE  ListInv'
  <1> USE DEF ListInv
  <1>0. /\ gen \in [Addrs -> 0 .. MaxGen] /\ gen[a] \in 0 .. MaxGen
        /\ MaxGen \in Nat /\ todo \subseteq Addrs
    BY Typed, ListAssumption
  <1>1. /\ gen' = [gen EXCEPT ![a] = gen[a] + 1] /\ gen[a] < MaxGen
        /\ UNCHANGED <<sysfs, relate, descriptors, dev, scan, discdevs, moved, fresh, list, own, handles>>
    BY DEF E!Plug, E!Unplug, E!flags, E!program, E!scanning
  <1>2. /\ gen' \in [Addrs -> 0 .. MaxGen]
        /\ \A c \in Addrs : c # a => gen'[c] = gen[c]
    BY <1>0, <1>1
  <1>3. /\ todo' \subseteq Addrs /\ todo' \subseteq todo \cup {a} /\ todo \subseteq todo'
        /\ unplugged' \in BOOLEAN /\ (~unplugged' => E!Plug(a) /\ ~unplugged)
        /\ throughout' \subseteq throughout
    BY <1>0 DEF E!Plug, E!Unplug, E!scanning, ListTyped
  <1>4. ListTyped'
    <2>1. E!TypeOK' BY <1>1, <1>2, <1>3 DEF ListTyped, E!TypeOK, E!Ids
    <2> QED BY <1>1, <1>3, <2>1 DEF ListTyped, E!Ids
  <1>5. DevicesCounted' /\ E!Alive' = E!Alive BY <1>1, SameDevices
  <1>6. Cached' BY <1>1, <1>5 DEF Cached
  <1>7. throughout' \subseteq E!AllAttached'
    <2>1. throughout \subseteq E!AllAttached BY DEF Scan
    <2>2. CASE E!Plug(a)
      <3>1. a \notin throughout BY <2>1, <2>2 DEF E!Plug, E!AllAttached
      <3> QED BY <1>2, <1>3, <2>1, <3>1 DEF E!AllAttached, E!Attached
    <2>3. CASE E!Unplug(a)
      <3>1. a \notin throughout' BY <2>3 DEF E!Unplug
      <3> QED BY <1>2, <1>3, <2>1, <3>1 DEF E!AllAttached, E!Attached
    <2> QED BY <2>2, <2>3
  <1>8. Scan' BY <1>1, <1>7 DEF Scan
  <1>9. ASSUME ~unplugged'
        PROVE  \A s \in Seq(E!Ids) : UpToDate(dev, gen, s) =>
                 /\ UpToDate(dev, gen', s) /\ a \notin Listing(dev, s)
                 /\ OfNow(dev, gen, s) => OfNow(dev, gen', s)
    <2>1. gen[a] % 2 # 1 BY <1>3, <1>9 DEF E!Plug, E!Attached
    <2> SUFFICES ASSUME NEW s \in Seq(E!Ids), UpToDate(dev, gen, s)
                 PROVE  /\ UpToDate(dev, gen', s) /\ a \notin Listing(dev, s)
                        /\ OfNow(dev, gen, s) => OfNow(dev, gen', s)
      OBVIOUS
    <2>2. \A i \in DOMAIN s : dev[s[i]].addr # a /\ dev[s[i]].addr \in Addrs
      BY <2>1 DEF UpToDate
    <2> QED BY <1>2, <2>2 DEF UpToDate, Listing, OfNow
  <1>10. AllFound'
    <2>0. discdevs \in Seq(E!Ids) /\ list \in Seq(E!Ids) BY Typed
    <2>1. ASSUME Scanning'
          PROVE  /\ throughout' \subseteq todo' \cup Listing(dev', discdevs')
                 /\ ~unplugged' => /\ UpToDate(dev', gen', discdevs')
                                   /\ todo' \subseteq E!AllAttached' \ Listing(dev', discdevs')
                                   /\ sysfs' = "darwin" => OfNow(dev', gen', discdevs')
      <3>1. Scanning BY <1>1, <2>1 DEF Scanning
      <3>2. throughout' \subseteq todo' \cup Listing(dev', discdevs')
        BY <1>1, <1>3, <3>1 DEF AllFound
      <3>3. ASSUME ~unplugged'
            PROVE  /\ UpToDate(dev, gen', discdevs)
                   /\ todo' \subseteq E!AllAttached' \ Listing(dev, discdevs)
                   /\ sysfs = "darwin" => OfNow(dev, gen', discdevs)
        <4>1. /\ UpToDate(dev, gen, discdevs) /\ todo \subseteq E!AllAttached \ Listing(dev, discdevs)
              /\ sysfs = "darwin" => OfNow(dev, gen, discdevs)
          BY <1>3, <3>1, <3>3 DEF AllFound
        <4>2. /\ UpToDate(dev, gen', discdevs) /\ a \notin Listing(dev, discdevs)
              /\ sysfs = "darwin" => OfNow(dev, gen', discdevs)
          BY <1>9, <2>0, <3>3, <4>1
        <4>3. E!AllAttached \cup {a} \subseteq E!AllAttached'
          <5>1. gen[a] % 2 # 1 /\ gen'[a] = gen[a] + 1
            BY <1>0, <1>1, <1>3, <3>3 DEF E!Plug, E!Attached
          <5>2. gen'[a] % 2 = 1 BY <1>0, <5>1
          <5> QED BY <1>2, <5>1, <5>2 DEF E!AllAttached, E!Attached
        <4> QED BY <1>3, <4>1, <4>2, <4>3
      <3> QED BY <1>1, <3>2, <3>3
    <2>2. ASSUME fresh'
          PROVE  /\ throughout' \subseteq Listing(dev', list')
                 /\ ~unplugged' => /\ UpToDate(dev', gen', list')
                                   /\ sysfs' = "darwin" => OfNow(dev', gen', list')
      <3>1. throughout' \subseteq Listing(dev', list')
        BY <1>1, <1>3, <2>2 DEF AllFound
      <3>2. ASSUME ~unplugged'
            PROVE  /\ UpToDate(dev, gen', list)
                   /\ sysfs = "darwin" => OfNow(dev, gen', list)
        <4>1. /\ UpToDate(dev, gen, list)
              /\ sysfs = "darwin" => OfNow(dev, gen, list)
          BY <1>1, <1>3, <2>2, <3>2 DEF AllFound
        <4> QED BY <1>9, <2>0, <3>2, <4>1
      <3> QED BY <1>1, <3>1, <3>2
    <2> QED BY <2>1, <2>2 DEF AllFound
  <1> QED BY <1>4, <1>5, <1>6, <1>8, <1>10

LEMMA Enumerate ==
  ASSUME ListInv, E!GetDeviceList \/ E!Found
  PROVE  ListInv'
  <1> USE DEF ListInv
  <1>0. /\ <<>> \in Seq(E!Ids) /\ DOMAIN <<>> = {}
        /\ discdevs \in Seq(E!Ids) /\ list \in Seq(E!Ids)
    BY Typed
  <1>1. CASE E!GetDeviceList
    <2>1. /\ scan = "no" /\ list = <<>> /\ fresh' = FALSE /\ unplugged' = FALSE
          /\ scan' = IF sysfs = "darwin" THEN "iokit" ELSE IF relate # 0 THEN "sysfs" ELSE "usbfs"
          /\ todo' = E!AllAttached /\ throughout' = E!AllAttached
          /\ UNCHANGED <<gen, sysfs, relate, descriptors, dev, discdevs, moved, list, own, handles>>
      BY <1>1 DEF E!GetDeviceList, E!flags
    <2>2. discdevs = <<>> /\ ~moved BY <2>1 DEF Scan
    <2>3. E!AllAttached \subseteq Addrs /\ E!AllAttached' = E!AllAttached
      BY <2>1 DEF E!AllAttached, E!Attached
    <2>4. ListTyped'
      <3>1. E!TypeOK' BY <2>1, <2>3 DEF ListTyped, E!TypeOK, E!Ids
      <3> QED BY <2>1, <3>1 DEF ListTyped, E!Ids
    <2>5. DevicesCounted' /\ E!Alive' = E!Alive BY <2>1, SameDevices
    <2>6. Scan' BY <2>1, <2>2, <2>3 DEF Scan
    <2>7. Cached' BY <2>1, <2>5 DEF Cached
    <2>8. AllFound'
      <3>1. Listing(dev, <<>>) = {} /\ UpToDate(dev, gen, <<>>) /\ OfNow(dev, gen, <<>>)
        BY <1>0 DEF Listing, UpToDate, OfNow
      <3> QED BY <2>1, <2>2, <2>3, <3>1 DEF AllFound
    <2> QED BY <2>4, <2>5, <2>6, <2>7, <2>8
  <1>2. CASE E!Found
    <2>1. Scanning /\ todo = {} /\ E!NoScan
          /\ UNCHANGED <<gen, sysfs, unplugged, throughout, relate, descriptors, own, handles>>
      BY <1>2 DEF E!Found, Scanning, E!env, E!flags
    <2>2. CASE dev' = E!UnrefAll(dev, discdevs) /\ UNCHANGED <<list, fresh>>
      <3>1. relate' \in {-1, 0, 1} /\ descriptors' \in {-1, 0, 1} BY <2>1, Typed
      <3> QED BY <2>1, <2>2, <3>1, Ended
    <2>3. CASE /\ list' = discdevs /\ fresh' = TRUE
               /\ dev' = E!UnrefAll(E!RefAll(dev, discdevs), discdevs)
      <3>1. dev' = dev BY <1>0, <2>3, Copied
      <3>2. list = <<>> /\ scan' = "no" /\ discdevs' = <<>> /\ todo' = {} /\ moved' = FALSE
        BY <2>1 DEF Scan, Scanning, E!NoScan
      <3>3. ListTyped'
        <4>1. E!TypeOK' BY <1>0, <2>1, <2>3, <3>1, <3>2 DEF ListTyped, E!TypeOK, E!Ids
        <4> QED BY <2>1, <2>3, <3>2, <4>1 DEF ListTyped, E!Ids
      <3>4. E!Alive' = E!Alive BY <3>1 DEF E!Alive, E!Ids
      <3>5. DevicesCounted'
        <4>1. \A d \in E!Ids : Refs(d)' = Refs(d)
          <5> SUFFICES ASSUME NEW d \in E!Ids PROVE Refs(d)' = Refs(d) OBVIOUS
          <5>1. /\ E!Holds(discdevs', d) = 0 /\ E!Holds(list', d) = E!Holds(discdevs, d)
                /\ E!Holds(list, d) = 0
            BY <2>3, <3>2, HoldsNone
          <5>2. E!Holds(discdevs, d) \in Nat /\ own[d] \in Nat BY Held
          <5>3. Refs(d)' = 0 + E!Holds(discdevs, d) + own[d] + (IF d \in handles THEN 1 ELSE 0)
            BY <2>1, <5>1 DEF Refs, E!Holds
          <5>4. Refs(d) = E!Holds(discdevs, d) + 0 + own[d] + (IF d \in handles THEN 1 ELSE 0)
            BY <5>1 DEF Refs
          <5> QED BY <5>2, <5>3, <5>4
        <4> QED BY <3>1, <3>4, <4>1 DEF DevicesCounted, E!Free, E!Ids
      <3>6. Scan' BY <2>1, <3>2 DEF Scan, E!AllAttached, E!Attached
      <3>7. Cached' BY <2>1, <3>1, <3>4 DEF Cached
      <3>8. AllFound'
        <4>1. throughout \subseteq Listing(dev, discdevs) BY <2>1 DEF AllFound
        <4>2. ~unplugged => /\ UpToDate(dev, gen, discdevs)
                            /\ sysfs = "darwin" => OfNow(dev, gen, discdevs)
          BY <2>1 DEF AllFound
        <4> QED BY <2>1, <2>3, <3>1, <3>2, <4>1, <4>2 DEF AllFound, Scanning
      <3> QED BY <3>3, <3>5, <3>6, <3>7, <3>8
    <2> QED BY <1>2, <2>2, <2>3 DEF E!Found
  <1> QED BY <1>1, <1>2


(* An entry of the directory, or of the iterator, is taken.                *)
LEMMA EntryTaken ==
  ASSUME ListInv, NEW a \in Addrs,
         \/ E!SysfsScanDevice(a) \/ E!SysfsScanFails(a) \/ E!UsbfsFallback(a)
         \/ E!UsbfsScan(a) \/ E!ProcessNewDevice(a) \/ E!SkipDevice(a)
  PROVE  ListInv'
  <1> USE DEF ListInv
  <1>1. CASE E!SysfsScanDevice(a) \/ E!SysfsScanFails(a) \/ E!UsbfsFallback(a)
    <2>1. /\ scan = "sysfs" /\ a \in todo /\ descriptors' \in E!HasDescriptors(a)
          /\ UNCHANGED <<gen, sysfs, unplugged, throughout, fresh, list, own, handles>>
          /\ relate' \in {relate, 0, 1}
      BY <1>1 DEF E!SysfsScanDevice, E!SysfsScanFails, E!UsbfsFallback, E!env, E!program
    <2>2. /\ descriptors' \in {-1, 0, 1} /\ descriptors' # -1 /\ relate' \in {-1, 0, 1}
          /\ descriptors' = descriptors \/ descriptors = -1
      BY <2>1, Typed DEF E!HasDescriptors
    <2>3. CASE E!SysfsScanDevice(a)
      <3>1. /\ E!Attached(a) \/ unplugged
            /\ E!EnumerateExisting(a) \/ E!EnumerateNew(a, TRUE, descriptors')
            /\ sysfs # "old"
        BY <2>3 DEF E!SysfsScanDevice
      <3>2. CASE E!EnumerateExisting(a) BY <2>1, <2>2, <3>1, <3>2, ExistingFound
      <3>3. CASE E!EnumerateNew(a, TRUE, descriptors') BY <2>1, <2>2, <3>1, <3>3, NewFound
      <3> QED BY <3>1, <3>2, <3>3
    <2>4. CASE E!SysfsScanFails(a)
      <3>1. E!Fail(dev) BY <2>4 DEF E!SysfsScanFails
      <3> QED BY <2>1, <2>2, <3>1, Failed DEF Scanning
    <2>5. CASE E!UsbfsFallback(a)
      <3>1. /\ sysfs = "old" \/ ~E!Attached(a)
            /\ relate' = 0 /\ scan' = "usbfs" /\ todo' = E!AllAttached
            /\ UNCHANGED <<dev, discdevs, moved>>
        BY <2>5 DEF E!UsbfsFallback
      <3>2. DevicesCounted' /\ E!Alive' = E!Alive BY <2>1, <3>1, SameDevices
      <3>3. E!AllAttached \subseteq Addrs /\ E!AllAttached' = E!AllAttached
        BY <2>1 DEF E!AllAttached, E!Attached
      <3>4. ListTyped'
        <4>1. E!TypeOK' BY <2>1, <2>2, <3>1, <3>3 DEF ListTyped, E!TypeOK, E!Ids
        <4> QED BY <2>1, <3>1, <4>1 DEF ListTyped, E!Ids
      <3>5. sysfs # "darwin" /\ ~fresh BY <2>1 DEF Scan
      <3>6. Scan' BY <2>1, <3>1, <3>3, <3>5 DEF Scan
      <3>7. Cached' BY <2>1, <2>2, <3>1, <3>2, <3>5 DEF Cached
      <3>8. AllFound'
        <4>1. throughout \subseteq E!AllAttached BY DEF Scan
        <4>2. ~unplugged => discdevs = <<>>
          BY <2>1, <3>1 DEF AllFound, Scanning, Scan, E!AllAttached
        <4>3. DOMAIN <<>> = {} OBVIOUS
        <4>4. Listing(dev, <<>>) = {} /\ UpToDate(dev, gen, <<>>)
          BY <4>3 DEF Listing, UpToDate
        <4> QED BY <2>1, <3>1, <3>3, <3>5, <4>1, <4>2, <4>4 DEF AllFound
      <3> QED BY <3>2, <3>4, <3>6, <3>7, <3>8
    <2> QED BY <1>1, <2>3, <2>4, <2>5
  <1>2. CASE E!UsbfsScan(a)
    <2>1. /\ scan = "usbfs" /\ a \in todo
          /\ E!EnumerateExisting(a) \/ E!EnumerateNew(a, FALSE, descriptors)
          /\ UNCHANGED <<gen, sysfs, unplugged, throughout, relate, descriptors, fresh, list, own, handles>>
      BY <1>2 DEF E!UsbfsScan, E!env, E!flags, E!program
    <2>2. /\ descriptors' \in {-1, 0, 1} /\ relate' \in {-1, 0, 1}
      BY <2>1, Typed
    <2>3. E!Attached(a) \/ unplugged
      BY <2>1, Typed DEF AllFound, Scanning, E!AllAttached
    <2>4. CASE E!EnumerateExisting(a) BY <2>1, <2>2, <2>3, <2>4, ExistingFound
    <2>5. CASE E!EnumerateNew(a, FALSE, descriptors)
      <3>1. E!EnumerateNew(a, FALSE, descriptors') BY <2>1, <2>5
      <3> QED BY <2>1, <2>2, <3>1, NewFound
    <2> QED BY <2>1, <2>4, <2>5
  <1>3. CASE E!ProcessNewDevice(a)
    <2>1. /\ scan = "iokit" /\ a \in todo /\ E!Attached(a) /\ todo' = todo \ {a}
          /\ UNCHANGED <<gen, sysfs, unplugged, throughout, relate, descriptors, scan, fresh, list,
                         own, handles>>
      BY <1>3 DEF E!ProcessNewDevice, E!env, E!flags, E!program
    <2>2. /\ relate' \in {-1, 0, 1} /\ gen[a] \in 0 .. MaxGen /\ a \in Addrs
          /\ Scanning /\ sysfs = "darwin" /\ descriptors' = 0 /\ descriptors = 0
          /\ descriptors' \in {0, 1} /\ descriptors' = descriptors
          /\ scan # "usbfs" /\ scan # "sysfs" /\ (E!Attached(a) \/ unplugged)
          /\ UNCHANGED <<gen, sysfs, unplugged, throughout, scan, fresh, list, own, handles>>
      BY <2>1, Typed DEF Scan, Cached, Scanning
    <2>3. CASE \E d \in E!Alive :
                 /\ dev[d].addr = a
                 /\ E!DiscoveredDevsAppend(d, TRUE)
                 /\ dev' = [E!Ref(dev, d) EXCEPT ![d].gen = gen[a]]
      <3>1. PICK d \in E!Alive :
              /\ dev[d].addr = a
              /\ E!DiscoveredDevsAppend(d, TRUE)
              /\ dev' = [E!Ref(dev, d) EXCEPT ![d].gen = gen[a]]
        BY <2>3
      <3>2. d \in E!Ids /\ dev[d] \in Devices /\ dev \in [E!Ids -> Devices]
        BY DeviceTypes DEF E!Alive
      <3> DEFINE q == [dev[d] EXCEPT !.refcnt = dev[d].refcnt + 1]
                 r == [q EXCEPT !.gen = gen[a]]
      <3>3. /\ q \in Devices /\ q.refcnt = dev[d].refcnt + 1 /\ q.addr = a
            /\ q.cached = dev[d].cached
        BY <3>1, <3>2 DEF Devices
      <3>4. /\ r \in Devices /\ r.refcnt = dev[d].refcnt + 1 /\ r.addr = a
            /\ r.cached = dev[d].cached /\ r.gen = gen[a]
        <4> HIDE DEF q
        <4> QED BY <2>2, <3>3 DEF Devices
      <3>5. E!Ref(dev, d) = [dev EXCEPT ![d] = q] BY <3>2 DEF E!Ref
      <3>6. dev' = [dev EXCEPT ![d] = r]
        <4> HIDE DEF q
        <4>1. [[dev EXCEPT ![d] = q] EXCEPT ![d].gen = gen[a]] = [dev EXCEPT ![d] = r]
          BY <3>2
        <4> QED BY <3>1, <3>5, <4>1
      <3>7. \A e \in E!Alive : e # d => dev[e].addr # a BY <3>1 DEF DevicesCounted
      <3>8. r.cached BY <2>2, <3>4 DEF Cached
      <3>9. d \in E!Alive => dev[d].addr = a BY <3>1
      <3>10. E!DiscoveredDevsAppend(d, TRUE) BY <3>1
      <3> HIDE DEF r, q
      <3> QED BY <3>9, <3>10, <2>1, <2>2, <3>2, <3>4, <3>6, <3>7, <3>8, Joined
    <2>4. CASE /\ \A d \in E!Alive : dev[d].addr # a
               /\ LET d == E!Min(E!Ids \ E!Alive) IN
                    /\ E!DiscoveredDevsAppend(d, TRUE)
                    /\ dev' = [dev EXCEPT ![d] = [addr |-> a, gen |-> gen[a], refcnt |-> 1, cached |-> TRUE]]
      <3> DEFINE d == E!Min(E!Ids \ E!Alive)
                 r == [addr |-> a, gen |-> gen[a], refcnt |-> 1, cached |-> TRUE]
      <3>1. d \in E!Ids /\ d \notin E!Alive /\ dev[d] = E!Free
        BY <2>2, <2>4, FreeBlock
      <3>2. /\ r \in Devices /\ r.addr = a /\ r.refcnt = 1 /\ r.gen = gen[a] /\ r.cached
        BY <2>2 DEF Devices
      <3>3. r.refcnt = dev[d].refcnt + 1
        <4> HIDE DEF r, d
        <4> QED BY <3>1, <3>2 DEF E!Free
      <3>4. E!DiscoveredDevsAppend(d, TRUE) /\ dev' = [dev EXCEPT ![d] = r] BY <2>4
      <3>5. \A e \in E!Alive : e # d => dev[e].addr # a BY <2>4
      <3> HIDE DEF r, d
      <3> QED BY <2>1, <2>2, <3>5, <3>1, <3>2, <3>3, <3>4, Joined
    <2> QED BY <1>3, <2>3, <2>4 DEF E!ProcessNewDevice
  <1>4. CASE E!SkipDevice(a)
    <2>1. /\ scan = "iokit" /\ a \in todo /\ todo' = todo \ {a} /\ throughout' = throughout \ {a}
          /\ UNCHANGED <<gen, sysfs, unplugged, relate, descriptors, dev, scan, discdevs, moved,
                         fresh, list, own, handles>>
      BY <1>4 DEF E!SkipDevice, E!flags, E!program
    <2>2. DevicesCounted' /\ E!Alive' = E!Alive BY <2>1, SameDevices
    <2>3. ListTyped'
      <3>1. E!TypeOK' BY <2>1 DEF ListTyped, E!TypeOK, E!Ids
      <3> QED BY <2>1, <3>1 DEF ListTyped, E!Ids
    <2>4. E!AllAttached' = E!AllAttached BY <2>1 DEF E!AllAttached, E!Attached
    <2>5. Scan' BY <2>1, <2>4 DEF Scan
    <2>6. Cached' BY <2>1, <2>2 DEF Cached
    <2>7. AllFound'
      <3>1. Scanning /\ ~fresh BY <2>1 DEF Scan, Scanning, ListTyped
      <3> QED BY <2>1, <2>4, <3>1 DEF AllFound
    <2> QED BY <2>2, <2>3, <2>5, <2>6, <2>7
  <1> QED BY <1>1, <1>2, <1>3, <1>4

(* The program gets and gives back a reference.                            *)
LEMMA Program ==
  ASSUME ListInv, NEW b \in E!Ids,
         E!RefDevice(b) \/ E!UnrefDevice(b) \/ E!Open(b) \/ E!Close(b)
  PROVE  ListInv'
  <1> USE DEF ListInv
  <1>1. /\ scan = "no" /\ list' = list /\ fresh' = fresh
        /\ UNCHANGED <<gen, sysfs, unplugged, throughout, relate, descriptors, scan, todo, discdevs, moved>>
    BY DEF E!RefDevice, E!UnrefDevice, E!Open, E!Close, E!Others, E!Idle, E!env, E!flags, E!scanning
  <1>2. own \in [E!Ids -> 0 .. MaxRefs] /\ handles \subseteq E!Ids /\ MaxRefs \in Nat
    BY Typed, ListAssumption
  <1>3. b \in Range(list) => dev[b].refcnt # 0
    BY Held DEF Range, E!Range, E!Alive
  <1>4. \A d \in E!Ids :
          /\ dev[d].refcnt \in Nat /\ Refs(d) \in Nat /\ dev[d].refcnt = Refs(d)
          /\ E!Holds(discdevs, d) \in Nat /\ E!Holds(list, d) \in Nat /\ own[d] \in Nat
    BY Held
  <1>5. own[b] # 0 \/ b \in handles => dev[b].refcnt # 0
    BY <1>2, Held DEF E!Alive
  <1>6. CASE E!RefDevice(b) \/ E!Open(b)
    <2> DEFINE n == [d \in E!Ids |-> dev[d].refcnt + One(d, b)]
    <2>1. dev[b].refcnt # 0
      BY <1>2, <1>3, <1>5, <1>6 DEF E!RefDevice, E!Open, E!Range, Range
    <2>2. dev' = E!Ref(dev, b) BY <1>6 DEF E!RefDevice, E!Open
    <2>3. dev' = Counts(n) BY <2>1, <2>2, Counting
    <2>4. \A d \in E!Ids : n[d] \in Nat /\ (n[d] # 0 => dev[d].refcnt # 0)
      BY <1>4, <2>1 DEF One
    <2>5. own' \in [E!Ids -> 0 .. MaxRefs] /\ handles' \subseteq E!Ids
      BY <1>2, <1>6 DEF E!RefDevice, E!Open
    <2>6. \A d \in E!Ids : Refs(d)' = n[d]
      <3> SUFFICES ASSUME NEW d \in E!Ids PROVE Refs(d)' = n[d] OBVIOUS
      <3>1. PICK h \in Nat : h = E!Holds(discdevs, d) + E!Holds(list, d) BY <1>4
      <3>2. PICK o \in Nat : o = own[d] BY <1>4
      <3>3. dev[d].refcnt = h + o + IF d \in handles THEN 1 ELSE 0
        BY <1>4, <3>1, <3>2 DEF Refs
      <3>4. Refs(d)' = h + own'[d] + IF d \in handles' THEN 1 ELSE 0
        BY <1>1, <3>1 DEF Refs, E!Holds
      <3>5. n[d] = h + o + (IF d \in handles THEN 1 ELSE 0) + One(d, b)
        BY <3>3
      <3> HIDE DEF n
      <3>6. CASE E!RefDevice(b)
        <4>1. own'[d] = o + One(d, b) /\ handles' = handles
          BY <1>2, <3>2, <3>6 DEF E!RefDevice, One
        <4> QED BY <3>4, <3>5, <4>1 DEF One
      <3>7. CASE E!Open(b)
        <4>1. own'[d] = o /\ handles' = handles \cup {b} /\ b \notin handles
          BY <3>2, <3>7 DEF E!Open
        <4> QED BY <3>4, <3>5, <4>1 DEF One
      <3> QED BY <1>6, <3>6, <3>7
    <2>7. n \in [E!Ids -> Nat] BY <2>4
    <2> HIDE DEF n
    <2> QED BY <1>1, <2>3, <2>4, <2>5, <2>6, <2>7, ProgramStep
  <1>7. CASE E!UnrefDevice(b) \/ E!Close(b)
    <2> DEFINE n == [d \in E!Ids |-> dev[d].refcnt - One(d, b)]
    <2>1. dev[b].refcnt # 0
      BY <1>2, <1>5, <1>7 DEF E!UnrefDevice, E!Close
    <2>2. dev' = E!Unref(dev, b) BY <1>7 DEF E!UnrefDevice, E!Close
    <2>3. dev' = Counts(n) BY <2>1, <2>2, Counting
    <2>4. \A d \in E!Ids : n[d] \in Nat /\ (n[d] # 0 => dev[d].refcnt # 0)
      BY <1>4, <2>1 DEF One
    <2>5. own' \in [E!Ids -> 0 .. MaxRefs] /\ handles' \subseteq E!Ids
      BY <1>2, <1>7 DEF E!UnrefDevice, E!Close
    <2>6. \A d \in E!Ids : Refs(d)' = n[d]
      <3> SUFFICES ASSUME NEW d \in E!Ids PROVE Refs(d)' = n[d] OBVIOUS
      <3>1. PICK h \in Nat : h = E!Holds(discdevs, d) + E!Holds(list, d) BY <1>4
      <3>2. PICK o \in Nat : o = own[d] BY <1>4
      <3>3. dev[d].refcnt = h + o + IF d \in handles THEN 1 ELSE 0
        BY <1>4, <3>1, <3>2 DEF Refs
      <3>4. Refs(d)' = h + own'[d] + IF d \in handles' THEN 1 ELSE 0
        BY <1>1, <3>1 DEF Refs, E!Holds
      <3>5. n[d] = h + o + (IF d \in handles THEN 1 ELSE 0) - One(d, b)
        BY <3>3 DEF One
      <3> HIDE DEF n
      <3>6. CASE E!UnrefDevice(b)
        <4>1. own'[d] = o - One(d, b) /\ handles' = handles
          BY <1>2, <3>2, <3>6 DEF E!UnrefDevice, One
        <4> QED BY <3>4, <3>5, <4>1 DEF One
      <3>7. CASE E!Close(b)
        <4>1. own'[d] = o /\ handles' = handles \ {b} /\ b \in handles
          BY <3>2, <3>7 DEF E!Close
        <4> QED BY <3>4, <3>5, <4>1 DEF One
      <3> QED BY <1>7, <3>6, <3>7
    <2>7. n \in [E!Ids -> Nat] BY <2>4
    <2> HIDE DEF n
    <2> QED BY <1>1, <2>3, <2>4, <2>5, <2>6, <2>7, ProgramStep
  <1> QED BY <1>6, <1>7


(* The program gives its list back, or keeps the references in it, or      *)
(* opens a device of it.                                                   *)
LEMMA ListGiven ==
  ASSUME ListInv, (\E unref \in BOOLEAN : E!FreeDeviceList(unref)) \/ E!OpenDeviceWithVidPid
  PROVE  ListInv'
  <1> USE DEF ListInv
  <1>1. /\ scan = "no" /\ list # <<>> /\ list' = <<>> /\ fresh' = FALSE
        /\ UNCHANGED <<gen, sysfs, unplugged, throughout, relate, descriptors, scan, todo, discdevs, moved>>
    BY DEF E!FreeDeviceList, E!OpenDeviceWithVidPid, E!Others, E!Idle, E!env, E!flags, E!scanning
  <1>2. /\ own \in [E!Ids -> 0 .. MaxRefs] /\ handles \subseteq E!Ids /\ MaxRefs \in Nat
        /\ list \in Seq(E!Ids)
    BY Typed, ListAssumption
  <1>3. \A d \in E!Ids :
          /\ dev[d].refcnt \in Nat /\ Refs(d) \in Nat /\ dev[d].refcnt = Refs(d)
          /\ E!Holds(discdevs, d) \in Nat /\ E!Holds(list, d) \in Nat /\ own[d] \in Nat
    BY Held
  <1>4. ASSUME NEW d \in E!Ids
        PROVE  Refs(d)' = E!Holds(discdevs, d) + 0 + own'[d] + (IF d \in handles' THEN 1 ELSE 0)
    <2>1. E!Holds(list', d) = 0 /\ discdevs' = discdevs BY <1>1, HoldsNone
    <2> QED BY <2>1 DEF Refs, E!Holds
  <1>5. CASE dev' = E!UnrefAll(dev, list) /\ UNCHANGED <<own, handles>>
    <2> DEFINE n == [d \in E!Ids |-> dev[d].refcnt - E!Holds(list, d)]
    <2>1. dev' = Counts(n) BY <1>2, <1>5, Released
    <2>2. \A d \in E!Ids : /\ n[d] \in Nat /\ Refs(d)' = n[d]
                           /\ n[d] # 0 => dev[d].refcnt # 0
      <3> SUFFICES ASSUME NEW d \in E!Ids
                   PROVE  n[d] \in Nat /\ Refs(d)' = n[d] /\ (n[d] # 0 => dev[d].refcnt # 0)
        OBVIOUS
      <3>1. PICK h \in Nat : h = E!Holds(list, d) BY <1>3
      <3>2. PICK o \in Nat : o = E!Holds(discdevs, d) BY <1>3
      <3>3. PICK r \in Nat : r = own[d] + (IF d \in handles THEN 1 ELSE 0) BY <1>3
      <3>4. dev[d].refcnt = o + h + r BY <1>3, <3>1, <3>2, <3>3 DEF Refs
      <3>5. n[d] = o + r BY <3>1, <3>4
      <3>6. Refs(d)' = o + 0 + own[d] + (IF d \in handles THEN 1 ELSE 0)
        BY <1>4, <1>5, <3>2
      <3>7. Refs(d)' = o + r BY <1>3, <3>3, <3>6
      <3> HIDE DEF n
      <3> QED BY <3>4, <3>5, <3>7
    <2>3. n \in [E!Ids -> Nat] BY <2>2
    <2> HIDE DEF n
    <2> QED BY <1>1, <1>2, <1>5, <2>1, <2>2, <2>3, ProgramStep
  <1>6. CASE /\ own' = [d \in E!Ids |-> own[d] + E!Holds(list, d)]
             /\ \A d \in E!Ids : own'[d] <= MaxRefs
             /\ UNCHANGED <<dev, handles>>
    <2>1. \A d \in E!Ids : Refs(d)' = Refs(d)
      <3> SUFFICES ASSUME NEW d \in E!Ids PROVE Refs(d)' = Refs(d) OBVIOUS
      <3>1. own'[d] = own[d] + E!Holds(list, d) BY <1>6
      <3>2. Refs(d)' = E!Holds(discdevs, d) + 0 + (own[d] + E!Holds(list, d))
                         + (IF d \in handles THEN 1 ELSE 0)
        BY <1>4, <1>6, <3>1
      <3> QED BY <1>3, <3>2 DEF Refs
    <2>2. own' \in [E!Ids -> 0 .. MaxRefs]
      <3>1. \A d \in E!Ids : own'[d] \in 0 .. MaxRefs BY <1>2, <1>3, <1>6
      <3> QED BY <1>6, <3>1
    <2>3. DevicesCounted' /\ E!Alive' = E!Alive
      <3>1. E!Alive' = E!Alive BY <1>6 DEF E!Alive, E!Ids
      <3> QED BY <1>6, <2>1, <3>1 DEF DevicesCounted, E!Ids, E!Free
    <2>4. ListTyped'
      <3>1. <<>> \in Seq(E!Ids) OBVIOUS
      <3>2. E!TypeOK' BY <1>1, <1>6, <2>2, <3>1 DEF ListTyped, E!TypeOK, E!Ids
      <3> QED BY <1>1, <1>6, <3>2 DEF ListTyped, E!Ids
    <2>5. Scan' BY <1>1 DEF Scan, E!AllAttached, E!Attached
    <2>6. Cached' BY <1>1, <1>6, <2>3 DEF Cached
    <2>7. AllFound' BY <1>1 DEF AllFound, Scanning
    <2> QED BY <2>3, <2>4, <2>5, <2>6, <2>7
  <1>7. CASE /\ UNCHANGED own
             /\ \E i \in DOMAIN list : /\ list[i] \notin handles
                                       /\ handles' = handles \cup {list[i]}
                                       /\ dev' = E!UnrefAll(E!Ref(dev, list[i]), list)
    <2>1. PICK i \in DOMAIN list : /\ list[i] \notin handles
                                   /\ handles' = handles \cup {list[i]}
                                   /\ dev' = E!UnrefAll(E!Ref(dev, list[i]), list)
      BY <1>7
    <2>2. PICK b \in E!Ids : b = list[i] BY <1>2
    <2>3. dev[b].refcnt # 0 BY <2>2, Held DEF E!Alive
    <2> DEFINE n == [d \in E!Ids |-> dev[d].refcnt + One(d, b) - E!Holds(list, d)]
    <2>4. dev' = Counts(n) BY <1>2, <2>1, <2>2, <2>3, ReleasedBut
    <2>5. \A d \in E!Ids : /\ n[d] \in Nat /\ Refs(d)' = n[d]
                           /\ n[d] # 0 => dev[d].refcnt # 0
      <3> SUFFICES ASSUME NEW d \in E!Ids
                   PROVE  n[d] \in Nat /\ Refs(d)' = n[d] /\ (n[d] # 0 => dev[d].refcnt # 0)
        OBVIOUS
      <3>1. PICK h \in Nat : h = E!Holds(list, d) BY <1>3
      <3>2. PICK o \in Nat : o = E!Holds(discdevs, d) + own[d] BY <1>3
      <3>3. dev[d].refcnt = o + h + (IF d \in handles THEN 1 ELSE 0)
        BY <1>3, <3>1, <3>2 DEF Refs
      <3>4. n[d] = dev[d].refcnt + One(d, b) - h BY <3>1
      <3>5. Refs(d)' = o + (IF d \in handles' THEN 1 ELSE 0) BY <1>3, <1>4, <1>7, <3>2
      <3>6. h # 0 => dev[d].refcnt # 0 BY <3>3
      <3> HIDE DEF n
      <3>7. CASE d = b
        <4>1. d \notin handles /\ d \in handles' BY <2>1, <2>2, <3>7
        <4>2. dev[d].refcnt = o + h /\ Refs(d)' = o + 1 /\ dev[d].refcnt # 0
          BY <2>3, <3>3, <3>5, <3>7, <4>1
        <4>3. n[d] = dev[d].refcnt + 1 - h BY <3>4, <3>7 DEF One
        <4> QED BY <4>2, <4>3
      <3>8. CASE d # b
        <4>1. d \in handles' <=> d \in handles BY <2>1, <2>2, <3>8
        <4> QED BY <3>3, <3>4, <3>5, <3>8, <4>1 DEF One
      <3> QED BY <3>7, <3>8
    <2>6. n \in [E!Ids -> Nat] BY <2>5
    <2>7. handles' \subseteq E!Ids /\ own' = own BY <1>2, <1>7, <2>1, <2>2
    <2> HIDE DEF n
    <2> QED BY <1>1, <1>2, <2>4, <2>5, <2>6, <2>7, ProgramStep
  <1>8. CASE E!OpenDeviceWithVidPid BY <1>5, <1>7, <1>8 DEF E!OpenDeviceWithVidPid
  <1>9. CASE \E unref \in BOOLEAN : E!FreeDeviceList(unref)
    BY <1>5, <1>6, <1>9 DEF E!FreeDeviceList
  <1> QED BY <1>8, <1>9

LEMMA ListStep == ASSUME ListInv, E!Next PROVE ListInv'
  <1>1. CASE \E a \in Addrs : E!Plug(a) \/ E!Unplug(a) BY <1>1, Plugged
  <1>2. CASE \E a \in Addrs : \/ E!SysfsScanDevice(a) \/ E!SysfsScanFails(a) \/ E!UsbfsFallback(a)
                              \/ E!UsbfsScan(a) \/ E!ProcessNewDevice(a) \/ E!SkipDevice(a)
    BY <1>2, EntryTaken
  <1>3. CASE E!GetDeviceList \/ E!Found BY <1>3, Enumerate
  <1>4. CASE \E d \in E!Ids : E!RefDevice(d) \/ E!UnrefDevice(d) \/ E!Open(d) \/ E!Close(d)
    BY <1>4, Program
  <1>5. CASE (\E unref \in BOOLEAN : E!FreeDeviceList(unref)) \/ E!OpenDeviceWithVidPid
    BY <1>5, ListGiven
  <1> QED BY <1>1, <1>2, <1>3, <1>4, <1>5 DEF E!Next

LEMMA ListStutter ==
  ASSUME ListInv, UNCHANGED E!vars
  PROVE  ListInv'
  <1> USE DEF ListInv, E!vars, E!env, E!flags, E!scanning, E!program
  <1>1. ListTyped' BY DEF ListTyped, E!TypeOK, E!Ids
  <1>2. DevicesCounted' /\ E!Alive' = E!Alive BY SameDevices
  <1>3. Scan' BY DEF Scan, E!AllAttached, E!Attached
  <1>4. Cached' BY <1>2 DEF Cached
  <1>5. AllFound' BY DEF AllFound, Scanning, E!AllAttached, E!Attached
  <1> QED BY <1>1, <1>2, <1>3, <1>4, <1>5

LEMMA ListSuffices ==
  ASSUME ListInv
  PROVE  E!TypeOK /\ E!RefsCounted /\ E!KeepsArray /\ E!ListedOnce /\ E!DescriptorCached
  <1> USE DEF ListInv
  <1>1. E!TypeOK BY DEF ListTyped
  <1>2. E!RefsCounted BY DEF DevicesCounted, Refs, E!RefsCounted
  <1>3. E!KeepsArray BY DEF Scan, E!KeepsArray
  <1>4. E!ListedOnce BY DEF AllFound, Listing, UpToDate, E!ListedOnce
  <1>5. E!DescriptorCached
    <2>1. sysfs = "darwin" /\ fresh /\ ~unplugged =>
            \A d \in E!Range(list) : dev[d].gen = gen[dev[d].addr]
      BY DEF AllFound, OfNow, E!Range
    <2> QED BY <2>1 DEF Cached, E!DescriptorCached
  <1> QED BY <1>1, <1>2, <1>3, <1>4, <1>5

(* A device of the Darwin backend.                                         *)

(* An instance has its own names of what the modules it extends define.    *)
LEMMA DarwinCardinality == ASSUME NEW S PROVE D!Cardinality(S) = Cardinality(S)
  BY DEF Cardinality, D!Cardinality

IfaceStates == [object : {"NULL", "closed", "open", "dead"},
                source : {"no", "live", "released", "twice"}, endpoints : BOOLEAN]

(* Of an interface that is sound, nothing that is released has endpoints.  *)
Sound(f) == f.endpoints => D!Works(f) \/ f.object = "dead"

LEMMA OneOfMany ==
  ASSUME NEW I, NEW J, NEW S, NEW f \in [I -> [J -> S]], NEW h \in I, NEW j \in J, NEW v \in S
  PROVE  /\ [f EXCEPT ![h][j] = v] \in [I -> [J -> S]]
         /\ \A g \in I, k \in J :
              [f EXCEPT ![h][j] = v][g][k] = IF g = h /\ k = j THEN v ELSE f[g][k]
  <1> DEFINE row == [f[h] EXCEPT ![j] = v]
  <1>1. row \in [J -> S] /\ \A k \in J : row[k] = IF k = j THEN v ELSE f[h][k] OBVIOUS
  <1>2. [f EXCEPT ![h][j] = v] = [f EXCEPT ![h] = row] OBVIOUS
  <1> HIDE DEF row
  <1>3. [f EXCEPT ![h] = row] \in [I -> [J -> S]] BY <1>1
  <1>4. \A g \in I : [f EXCEPT ![h] = row][g] = IF g = h THEN row ELSE f[g] OBVIOUS
  <1> QED BY <1>1, <1>2, <1>3, <1>4

LEMMA ReleasedSound ==
  ASSUME NEW f \in IfaceStates, Sound(f)
  PROVE  LET r == D!Released(f) IN
           /\ r \in IfaceStates /\ ~r.endpoints
           /\ D!Works(f) => r.source # "twice"
  BY DEF IfaceStates, Sound, D!Released, D!Works

LEMMA ClaimedSound ==
  ASSUME NEW f \in IfaceStates, ~f.endpoints, NEW e \in BOOLEAN, NEW g \in D!Claimed(f, e)
  PROVE  /\ g \in IfaceStates /\ (g.endpoints => D!Works(g))
         /\ f.source # "twice" /\ (D!Works(g) \/ f.source = "no") => g.source # "twice"
  <1> DEFINE opened == [f EXCEPT !.object = "open"]
  <1>1. /\ opened \in IfaceStates /\ ~opened.endpoints /\ opened.object = "open"
        /\ opened.source = f.source
    BY DEF IfaceStates
  <1> HIDE DEF opened
  <1>2. LET r == D!Released(opened) IN
          /\ r \in IfaceStates /\ ~r.endpoints
          /\ r.source = "twice" => f.source \notin {"no", "live"}
    BY <1>1 DEF IfaceStates, D!Released
  <1>3. \/ g = f \/ g = [f EXCEPT !.object = "closed"] \/ g = D!Released(opened)
        \/ g = D!NoIface \/ g = [object |-> "open", source |-> "live", endpoints |-> TRUE]
    BY DEF D!Claimed, opened
  <1>4. CASE g = f BY <1>4
  <1>5. CASE g = [f EXCEPT !.object = "closed"] BY <1>5 DEF IfaceStates
  <1>6. CASE g = D!Released(opened)
    <2>1. ~D!Works(g) BY <1>2, <1>6 DEF D!Works
    <2> QED BY <1>2, <1>6, <2>1
  <1>7. CASE g = D!NoIface BY <1>7 DEF IfaceStates, D!NoIface
  <1>8. CASE g = [object |-> "open", source |-> "live", endpoints |-> TRUE]
    BY <1>8 DEF IfaceStates, D!Works
  <1> QED BY <1>3, <1>4, <1>5, <1>6, <1>7, <1>8

(* The handles that have the device, or an event source, are open, as long *)
(* as the one that opened the device is closed last.                       *)
Opened ==
  /\ open_count = Cardinality(open) /\ device = (open # {})
  /\ inOrder => /\ seized => \E h \in open : is_open[h]
                /\ \A h \in Handles : source[h] = "live" => h \in open /\ is_open[h]

(* Endpoints are those of claimed interfaces.                              *)
Endpoints ==
  /\ ~configured => \A h \in Handles : claimed[h] = {}
  /\ \A h \in Handles, i \in Ifaces :
       Sound(iface[h][i]) /\ (iface[h][i].endpoints => i \in claimed[h])

Claims ==
  reclaimed => \A h \in Handles, i \in Ifaces :
                 /\ i \in claimed[h] => D!Works(iface[h][i])
                 /\ iface[h][i].source # "twice"

DarwinInv ==
  /\ D!TypeOK /\ reclaimed \in BOOLEAN /\ inOrder \in BOOLEAN
  /\ Opened /\ Endpoints /\ Claims

LEMMA DarwinInit == D!Init => DarwinInv
  <1> SUFFICES ASSUME D!Init PROVE DarwinInv OBVIOUS
  <1>1. Cardinality({}) = 0 /\ Cardinality(Handles) \in Nat
    BY DarwinAssumption, FS_EmptySet, FS_CardinalityType
  <1>2. D!TypeOK
    <2>1. D!NoIface \in IfaceStates BY DEF D!NoIface, IfaceStates
    <2>2. iface \in [Handles -> [Ifaces -> IfaceStates]] BY <2>1 DEF D!Init
    <2>3. is_open \in [Handles -> BOOLEAN] /\ source \in [Handles -> {"no", "live"}]
      BY DEF D!Init
    <2>4. claimed \in [Handles -> SUBSET Ifaces] BY DEF D!Init
    <2>5. open_count \in 0 .. Cardinality(Handles) BY <1>1 DEF D!Init
    <2> QED BY <2>2, <2>3, <2>4, <2>5, DarwinCardinality DEF D!Init, D!TypeOK, IfaceStates
  <1>3. Opened BY <1>1 DEF D!Init, Opened
  <1>4. Endpoints /\ Claims BY DEF D!Init, Endpoints, Claims, D!NoIface, Sound
  <1> QED BY <1>2, <1>3, <1>4 DEF D!Init, DarwinInv

LEMMA DarwinStep == DarwinInv /\ [D!Next]_D!vars => DarwinInv'
  <1> SUFFICES ASSUME DarwinInv, [D!Next]_D!vars PROVE DarwinInv' OBVIOUS
  <1> USE DarwinAssumption DEF DarwinInv
  <1>0. /\ IsFiniteSet(open) /\ Cardinality(open) \in Nat
        /\ iface \in [Handles -> [Ifaces -> IfaceStates]]
        /\ claimed \in [Handles -> SUBSET Ifaces]
        /\ \A h \in Handles, i \in Ifaces :
             iface[h][i] \in IfaceStates /\ Sound(iface[h][i])
             /\ (iface[h][i].endpoints => i \in claimed[h])
    <2>1. open \subseteq Handles /\ claimed \in [Handles -> SUBSET Ifaces]
          /\ iface \in [Handles -> [Ifaces -> IfaceStates]]
      BY DEF D!TypeOK, IfaceStates
    <2> QED BY <2>1, FS_Subset, FS_CardinalityType DEF Endpoints
  <1>1. ASSUME NEW h \in Handles, D!Open(h) PROVE DarwinInv'
    <2> USE <1>1 DEF D!Open
    <2>1. /\ open' \subseteq Handles /\ Cardinality(open') = open_count + 1
          /\ Cardinality(open') \in 0 .. Cardinality(Handles)
      BY <1>0, FS_AddElement, FS_Subset, FS_CardinalityType, DarwinCardinality DEF D!TypeOK, Opened
    <2>2. PICK exclusive \in BOOLEAN :
            LET opens == open_count = 0 /\ ~exclusive IN
              /\ is_open' = [is_open EXCEPT ![h] = opens]
              /\ source' = [source EXCEPT ![h] = IF opens THEN "live" ELSE "no"]
              /\ seized' = (seized \/ opens)
      OBVIOUS
    <2>3. D!TypeOK'
      <3>1. D!NoIface \in IfaceStates BY DEF D!NoIface, IfaceStates
      <3>2. iface' \in [Handles -> [Ifaces -> IfaceStates]] BY <1>0, <3>1
      <3>3. /\ is_open' \in [Handles -> BOOLEAN] /\ source' \in [Handles -> {"no", "live"}]
            /\ seized' \in BOOLEAN
        BY <2>2 DEF D!TypeOK
      <3>4. open_count' = open_count + 1 OBVIOUS
      <3> QED BY <2>1, <3>2, <3>3, <3>4, DarwinCardinality DEF D!TypeOK, IfaceStates
    <2>4. Opened'
      <3>1. seized' /\ inOrder' => \E g \in open' : is_open'[g]
        BY <2>2 DEF Opened, D!TypeOK
      <3>2. inOrder' => \A g \in Handles : source'[g] = "live" => g \in open' /\ is_open'[g]
        BY <2>2 DEF Opened, D!TypeOK
      <3> QED BY <2>1, <3>1, <3>2 DEF Opened
    <2>5. Endpoints' BY <1>0 DEF Endpoints, Sound, D!NoIface
    <2>6. Claims' BY <1>0 DEF Claims, D!NoIface
    <2> QED BY <2>3, <2>4, <2>5, <2>6, <2>6
  <1>2. ASSUME NEW h \in Handles, D!Close(h) PROVE DarwinInv'
    <2> USE <1>2 DEF D!Close
    <2>1. /\ open' \subseteq Handles /\ Cardinality(open') = open_count - 1
          /\ open_count - 1 \in 0 .. Cardinality(Handles)
          /\ open_count = 1 => open = {h}
          /\ open_count # 1 => open' # {}
      <3>1. /\ Cardinality(open \ {h}) = open_count - 1 /\ Cardinality(open \ {h}) \in Nat
            /\ IsFiniteSet(open \ {h}) /\ open_count \in Nat
            /\ open_count =< Cardinality(Handles) /\ Cardinality(Handles) \in Nat
        BY <1>0, FS_RemoveElement, FS_Subset, FS_CardinalityType, DarwinCardinality DEF D!TypeOK,
           Opened
      <3>2. open_count = 1 <=> open \ {h} = {}
        BY <3>1, FS_EmptySet
      <3> QED BY <3>1, <3>2 DEF D!TypeOK
    <2>2. \A i \in Ifaces : D!Released(iface[h][i]) \in IfaceStates /\ ~D!Released(iface[h][i]).endpoints
      BY <1>0, ReleasedSound
    <2>3. iface' \in [Handles -> [Ifaces -> IfaceStates]]
      BY <1>0, <2>2
    <2>4. D!TypeOK'
      <3>1. /\ seized' \in BOOLEAN /\ device' \in BOOLEAN
            /\ source' \in [Handles -> {"no", "live"}] /\ claimed' \in [Handles -> SUBSET Ifaces]
        BY DEF D!TypeOK
      <3> QED BY <2>1, <2>3, <3>1, DarwinCardinality DEF D!TypeOK, IfaceStates
    <2>5. Opened'
      <3>1. device' = (open' # {}) BY <2>1 DEF Opened
      <3>2. CASE open_count = 1
        BY <2>1, <3>1, <3>2 DEF Opened, D!TypeOK
      <3>3. CASE open_count # 1
        BY <2>1, <3>1, <3>3 DEF Opened, D!TypeOK
      <3> QED BY <3>2, <3>3
    <2>6. Endpoints' BY <1>0, <2>2 DEF Endpoints, Sound
    <2>7. Claims'
      <3>1. reclaimed => \A i \in claimed[h] : D!Released(iface[h][i]).source # "twice"
        BY <1>0, ReleasedSound DEF Claims
      <3> QED BY <1>0, <3>1 DEF Claims
    <2>8. inOrder' \in BOOLEAN BY DEF D!TypeOK
    <2> QED BY <2>4, <2>5, <2>6, <2>7, <2>8
  <1>3. ASSUME NEW h \in Handles, NEW i \in Ifaces, D!Claim(h, i) \/ D!ClaimUnconfigured(h, i)
        PROVE  DarwinInv'
    <2>1. /\ i \notin claimed[h] /\ D!Claims(h, i) /\ configured' = TRUE
          /\ UNCHANGED <<open_count, device, seized, open, is_open, source, inOrder>>
      BY <1>3 DEF D!Claim, D!ClaimUnconfigured, D!dpriv, Endpoints, D!TypeOK
    <2>2. PICK f \in D!Claimed(iface[h][i], D!Elsewhere(h, i)) :
            /\ iface' = [iface EXCEPT ![h][i] = f]
            /\ claimed' = [claimed EXCEPT ![h] = IF D!Works(f) THEN @ \cup {i} ELSE @]
            /\ reclaimed' = (reclaimed /\ (D!Works(f) \/ iface[h][i].source = "no"))
      BY <2>1 DEF D!Claims
    <2>3. /\ f \in IfaceStates /\ (f.endpoints => D!Works(f))
          /\ iface[h][i].source # "twice" /\ (D!Works(f) \/ iface[h][i].source = "no")
               => f.source # "twice"
      <3>1. iface[h][i] \in IfaceStates /\ ~iface[h][i].endpoints BY <1>0, <2>1
      <3>2. D!Elsewhere(h, i) \in BOOLEAN BY DEF D!Elsewhere
      <3> QED BY <3>1, <3>2, ClaimedSound
    <2>4. /\ iface' \in [Handles -> [Ifaces -> IfaceStates]]
          /\ \A g \in Handles, j \in Ifaces :
               iface'[g][j] = IF g = h /\ j = i THEN f ELSE iface[g][j]
      <3>1. f \in IfaceStates BY <2>3
      <3>2. iface \in [Handles -> [Ifaces -> IfaceStates]] BY <1>0
      <3> HIDE <1>0, <2>2
      <3>3. /\ [iface EXCEPT ![h][i] = f] \in [Handles -> [Ifaces -> IfaceStates]]
            /\ \A g \in Handles, j \in Ifaces :
                 [iface EXCEPT ![h][i] = f][g][j] = IF g = h /\ j = i THEN f ELSE iface[g][j]
        BY <3>1, <3>2, OneOfMany
      <3> QED BY <2>2, <3>3
    <2>5. D!TypeOK' /\ Opened'
      BY <1>0, <2>1, <2>2, <2>4 DEF D!TypeOK, Opened, IfaceStates
    <2>6. Endpoints' BY <1>0, <2>1, <2>2, <2>3, <2>4 DEF Endpoints, Sound
    <2>7. Claims'
      <3> SUFFICES ASSUME reclaimed', NEW g \in Handles, NEW j \in Ifaces
                   PROVE  /\ j \in claimed'[g] => D!Works(iface'[g][j])
                          /\ iface'[g][j].source # "twice"
        BY DEF Claims
      <3>1. /\ reclaimed /\ (D!Works(f) \/ iface[h][i].source = "no")
            /\ \A k \in Handles, l \in Ifaces :
                 (l \in claimed[k] => D!Works(iface[k][l])) /\ iface[k][l].source # "twice"
        BY <2>2 DEF Claims
      <3>2. f.source # "twice" BY <2>3, <3>1
      <3>3. j \in claimed'[g] => j \in claimed[g] \/ (g = h /\ j = i /\ D!Works(f))
        BY <1>0, <2>2
      <3>4. D!Works(iface'[g][j]) <=> IF g = h /\ j = i THEN D!Works(f) ELSE D!Works(iface[g][j])
        BY <2>4 DEF D!Works
      <3> QED BY <2>1, <2>4, <3>1, <3>2, <3>3, <3>4
    <2>8. reclaimed' \in BOOLEAN /\ inOrder' \in BOOLEAN BY <2>1, <2>2
    <2> QED BY <2>5, <2>6, <2>7, <2>8
  <1>4. ASSUME NEW h \in Handles, NEW i \in Ifaces, D!Release(h, i) PROVE DarwinInv'
    <2> USE <1>4 DEF D!Release, D!dpriv
    <2>1. /\ D!Released(iface[h][i]) \in IfaceStates /\ ~D!Released(iface[h][i]).endpoints
          /\ D!Works(iface[h][i]) => D!Released(iface[h][i]).source # "twice"
      BY <1>0, ReleasedSound
    <2>2. /\ iface' \in [Handles -> [Ifaces -> IfaceStates]]
          /\ \A g \in Handles, j \in Ifaces :
               iface'[g][j] = IF g = h /\ j = i THEN D!Released(iface[h][i]) ELSE iface[g][j]
      <3>1. iface' = [iface EXCEPT ![h][i] = D!Released(iface[h][i])] OBVIOUS
      <3> QED BY <1>0, <2>1, <3>1, OneOfMany
    <2>3. /\ claimed' \in [Handles -> SUBSET Ifaces] /\ reclaimed' \in BOOLEAN
          /\ \A g \in Handles, j \in Ifaces :
               /\ j \in claimed'[g] => j \in claimed[g]
               /\ ~(g = h /\ j = i) => (j \in claimed'[g] <=> j \in claimed[g])
               /\ g = h /\ j = i /\ j \in claimed'[g] => ~reclaimed'
      BY <1>0
    <2>4. D!TypeOK' /\ Opened' BY <1>0, <2>2, <2>3 DEF D!TypeOK, Opened, IfaceStates
    <2>5. Endpoints'
      <3>1. ~configured => \A g \in Handles : claimed'[g] = {} BY <1>0, <2>3 DEF Endpoints
      <3> QED BY <1>0, <2>1, <2>2, <2>3, <3>1 DEF Endpoints, Sound
    <2>6. Claims'
      <3>1. reclaimed' => reclaimed OBVIOUS
      <3>2. \A g \in Handles, j \in Ifaces :
              reclaimed' => iface'[g][j].source # "twice"
        BY <1>0, <2>1, <2>2, <3>1 DEF Claims
      <3> QED BY <1>0, <2>2, <2>3, <3>1, <3>2 DEF Claims
    <2> QED BY <2>3, <2>4, <2>5, <2>6
  <1>5. ASSUME NEW h \in Handles, NEW i \in Ifaces, D!SetInterfaceAltsetting(h, i)
        PROVE  DarwinInv'
    <2> USE <1>5 DEF D!SetInterfaceAltsetting, D!dpriv
    <2>1. D!Released(iface[h][i]) \in IfaceStates /\ ~D!Released(iface[h][i]).endpoints
      BY <1>0, ReleasedSound
    <2>2. /\ iface' \in [Handles -> [Ifaces -> IfaceStates]] /\ reclaimed' \in BOOLEAN
          /\ \A g \in Handles, j \in Ifaces :
               \/ iface'[g][j] = iface[g][j]
               \/ iface'[g][j] = D!Released(iface[h][i]) /\ g = h /\ j = i /\ ~reclaimed'
          /\ reclaimed' => UNCHANGED iface /\ reclaimed
      <3>1. CASE UNCHANGED <<iface, reclaimed>> BY <1>0, <3>1
      <3>2. CASE iface' = [iface EXCEPT ![h][i] = D!Released(@)] /\ reclaimed' = FALSE
        <4>1. iface' = [iface EXCEPT ![h][i] = D!Released(iface[h][i])] BY <3>2
        <4> DEFINE r == D!Released(iface[h][i])
        <4>2. r \in IfaceStates BY <2>1
        <4>3. iface \in [Handles -> [Ifaces -> IfaceStates]] BY <1>0
        <4> HIDE DEF r
        <4>4. /\ [iface EXCEPT ![h][i] = r] \in [Handles -> [Ifaces -> IfaceStates]]
              /\ \A g \in Handles, j \in Ifaces :
                   [iface EXCEPT ![h][i] = r][g][j] = IF g = h /\ j = i THEN r ELSE iface[g][j]
          BY <4>2, <4>3, OneOfMany
        <4>5. iface' = [iface EXCEPT ![h][i] = r] /\ r = D!Released(iface[h][i]) BY <4>1 DEF r
        <4>6. iface' \in [Handles -> [Ifaces -> IfaceStates]] BY <4>4, <4>5
        <4>7. \A g \in Handles, j \in Ifaces :
                \/ iface'[g][j] = iface[g][j]
                \/ iface'[g][j] = D!Released(iface[h][i]) /\ g = h /\ j = i
          BY <4>4, <4>5
        <4> QED BY <3>2, <4>6, <4>7
      <3> QED BY <3>1, <3>2
    <2>3. D!TypeOK' /\ Opened' BY <1>0, <2>2 DEF D!TypeOK, Opened, IfaceStates
    <2>4. Endpoints' BY <1>0, <2>1, <2>2 DEF Endpoints, Sound
    <2>5. Claims' BY <1>0, <2>2 DEF Claims
    <2> QED BY <2>3, <2>4, <2>5
  <1>6. ASSUME NEW h \in Handles, D!SetConfiguration(h) PROVE DarwinInv'
    <2> DEFINE released(i) == IF i \in claimed[h] THEN D!Released(iface[h][i]) ELSE iface[h][i]
               dead(f) == IF f.object = "NULL" THEN f ELSE [f EXCEPT !.object = "dead"]
               again(i) == IF i \in claimed[h] THEN D!Claimed(released(i), FALSE)
                                               ELSE {released(i)}
    <2>1. UNCHANGED <<open_count, device, seized, open, is_open, source, claimed, inOrder>>
      BY <1>6 DEF D!SetConfiguration, D!dpriv
    <2>2. \A i \in Ifaces : released(i) \in IfaceStates /\ ~released(i).endpoints
      BY <1>0, ReleasedSound
    <2>3. CASE /\ iface' = [iface EXCEPT ![h] = [i \in Ifaces |-> released(i)]]
               /\ reclaimed' = (reclaimed /\ claimed[h] = {}) /\ UNCHANGED configured
      <3>1. iface' \in [Handles -> [Ifaces -> IfaceStates]] BY <1>0, <2>2, <2>3
      <3>2. D!TypeOK' /\ Opened' BY <2>1, <2>3, <3>1 DEF D!TypeOK, Opened, IfaceStates
      <3>3. Endpoints' BY <1>0, <2>1, <2>2, <2>3 DEF Endpoints, Sound
      <3>4. Claims' BY <1>0, <2>1, <2>2, <2>3 DEF Claims
      <3>5. reclaimed' \in BOOLEAN /\ inOrder' \in BOOLEAN BY <2>1, <2>3
      <3> QED BY <3>2, <3>3, <3>4, <3>5
    <2>4. ASSUME configured' = TRUE,
                 NEW f \in [Ifaces -> UNION {again(i) : i \in Ifaces}],
                 \A i \in Ifaces : f[i] \in again(i),
                 iface' = [g \in Handles |->
                             IF g = h THEN f ELSE [i \in Ifaces |-> dead(iface[g][i])]],
                 reclaimed' = (/\ reclaimed
                               /\ \A g \in Handles \ {h} : claimed[g] = {}
                               /\ \A i \in claimed[h] : D!Works(f[i]))
          PROVE  DarwinInv'
      <3>1. \A i \in Ifaces : /\ f[i] \in IfaceStates
                              /\ f[i].endpoints => D!Works(f[i]) /\ i \in claimed[h]
                              /\ i \notin claimed[h] => f[i] = iface[h][i]
        <4> SUFFICES ASSUME NEW i \in Ifaces
                     PROVE  /\ f[i] \in IfaceStates
                            /\ f[i].endpoints => D!Works(f[i]) /\ i \in claimed[h]
                            /\ i \notin claimed[h] => f[i] = iface[h][i]
          OBVIOUS
        <4>1. CASE i \in claimed[h]
          <5>1. f[i] \in D!Claimed(released(i), FALSE) BY <2>4, <4>1
          <5>2. released(i) \in IfaceStates /\ ~released(i).endpoints BY <2>2
          <5> HIDE DEF released
          <5>3. f[i] \in IfaceStates /\ (f[i].endpoints => D!Works(f[i]))
            BY <5>1, <5>2, ClaimedSound
          <5> QED BY <5>3, <4>1
        <4>2. CASE i \notin claimed[h]
          <5>1. f[i] = iface[h][i] BY <2>4, <4>2
          <5> QED BY <1>0, <5>1, <4>2
        <4> QED BY <4>1, <4>2
      <3>2. \A g \in Handles, i \in Ifaces :
              /\ dead(iface[g][i]) \in IfaceStates
              /\ dead(iface[g][i]).endpoints => dead(iface[g][i]).object = "dead" /\ i \in claimed[g]
              /\ dead(iface[g][i]).source = iface[g][i].source
        <4> SUFFICES ASSUME NEW s \in IfaceStates, Sound(s)
                     PROVE  /\ dead(s) \in IfaceStates /\ dead(s).source = s.source
                            /\ dead(s).endpoints => dead(s).object = "dead" /\ s.endpoints
          BY <1>0
        <4> QED BY DEF Sound, IfaceStates, D!Works
      <3> HIDE DEF dead, again, released
      <3>3. \A i \in Ifaces : iface'[h][i] = f[i] BY <2>4
      <3>4. \A g \in Handles \ {h}, i \in Ifaces : iface'[g][i] = dead(iface[g][i]) BY <2>4
      <3>5. iface' \in [Handles -> [Ifaces -> IfaceStates]]
        <4>1. f \in [Ifaces -> IfaceStates] BY <3>1
        <4>2. \A g \in Handles : [i \in Ifaces |-> dead(iface[g][i])] \in [Ifaces -> IfaceStates]
          BY <3>2
        <4> QED BY <2>4, <4>1, <4>2
      <3>6. D!TypeOK' /\ Opened' BY <2>1, <2>4, <3>5 DEF D!TypeOK, Opened, IfaceStates
      <3>7. Endpoints' BY <2>1, <2>4, <3>1, <3>2, <3>3, <3>4 DEF Endpoints, Sound
      <3>8. Claims'
        <4> SUFFICES ASSUME reclaimed', NEW g \in Handles, NEW i \in Ifaces
                     PROVE  /\ i \in claimed[g] => D!Works(iface'[g][i])
                            /\ iface'[g][i].source # "twice"
          BY <2>1 DEF Claims
        <4>1. CASE g = h /\ i \in claimed[h]
          <5>1. D!Works(f[i]) /\ iface'[g][i] = f[i] BY <2>4, <3>3, <4>1
          <5> QED BY <5>1 DEF D!Works
        <4>2. CASE g = h /\ i \notin claimed[h]
          <5>1. reclaimed BY <2>4
          <5>2. iface'[g][i] = iface[h][i] BY <3>1, <3>3, <4>2
          <5>3. iface[h][i].source # "twice" BY <5>1 DEF Claims
          <5> QED BY <4>2, <5>2, <5>3
        <4>3. CASE g # h
          <5>1. /\ reclaimed /\ claimed[g] = {} /\ iface'[g][i] = dead(iface[g][i])
                /\ dead(iface[g][i]).source = iface[g][i].source
            BY <2>4, <3>2, <3>4, <4>3
          <5> QED BY <5>1 DEF Claims
        <4> QED BY <4>1, <4>2, <4>3
      <3>9. reclaimed' \in BOOLEAN /\ inOrder' \in BOOLEAN BY <2>1, <2>4
      <3> QED BY <3>6, <3>7, <3>8, <3>9
    <2> QED BY <1>6, <2>3, <2>4 DEF D!SetConfiguration
  <1>7. CASE UNCHANGED D!vars
    BY <1>7 DEF D!vars, D!dpriv, D!TypeOK, Opened, Endpoints, Claims
  <1> QED BY <1>1, <1>2, <1>3, <1>4, <1>5, <1>6, <1>7 DEF D!Next

(* Devices are held, their claims and endpoints work.                      *)
LEMMA DarwinSuffices == DarwinInv => D!DeviceHeld /\ D!ClaimsHeld /\ D!EndpointsUsable
  <1> SUFFICES ASSUME DarwinInv PROVE D!DeviceHeld /\ D!ClaimsHeld /\ D!EndpointsUsable OBVIOUS
  <1> USE DEF DarwinInv, D!TypeOK
  <1>1. D!DeviceHeld
    <2>1. (device <=> open # {}) /\ open_count = Cardinality(open) BY DEF Opened
    <2>2. ASSUME open = {}, inOrder PROVE ~seized /\ \A g \in Handles : source[g] = "no"
      BY <2>2 DEF Opened
    <2> QED BY <2>1, <2>2, DarwinCardinality DEF D!DeviceHeld
  <1>2. D!ClaimsHeld BY DEF D!ClaimsHeld, Claims
  <1>3. D!EndpointsUsable BY DEF D!EndpointsUsable, Endpoints, Sound
  <1> QED BY <1>1, <1>2, <1>3

-----------------------------------------------------------------------------
(* The contexts of libusb, and the event thread of the Darwin backend.     *)

LEMMA ContextsCardinality == ASSUME NEW S PROVE C!Cardinality(S) = Cardinality(S)
  BY DEF Cardinality, C!Cardinality

LEMMA ContextsMin ==
  ASSUME NEW S \in SUBSET Nat, S # {}
  PROVE  C!Min(S) \in S
  <1>1. \E n \in S : \A m \in S : ~(<<m, n>> \in OpToRel(<, Nat))
    BY NatLessThanWellFounded, WFMin
  <1>2. PICK n \in S : \A m \in S : ~(m < n) BY <1>1 DEF OpToRel
  <1>3. \A m \in S : n =< m BY <1>2
  <1> QED BY <1>3 DEF C!Min

(* Who initializes has the lock until that is done, or has failed.         *)
Holder(u) == pc[u] \in {"init", "waiting", "created", "failing", "unmaking"}
Locked ==
  /\ \A u, v \in Users : Holder(u) /\ Holder(v) => u = v
  /\ lock = \E u \in Users : Holder(u)
  /\ \A u \in Users : Holder(u) /\ kind[u] = "default" => ~default

Counted ==
  /\ default_context_refcnt = Cardinality(C!UsersOf("default"))
  /\ default = (C!UsersOf("default") # {})

(* The backend is initialized once for each context that is not freed.     *)
Active == {u \in Users : pc[u] \in {"in", "exiting", "waiting", "created", "failing"}}
Backed == {C!Context(u) : u \in Active}

(* Without an overlap, exits of the backend come one after the other, and  *)
(* while nobody initializes.  Who waits for the event thread, to start or  *)
(* to end, is alone.                                                       *)
Apart ==
  /\ \A u, v \in Users : C!Leaving(u) /\ C!Leaving(v) => u = v
  /\ \A u \in Users : C!Leaving(u) => ~lock /\ (kind[u] = "default" => ~default)
  /\ \A u \in Users : pc[u] = "in" => C!Context(u) \in contexts
  /\ \A u \in Users : pc[u] \in {"waiting", "stopping", "unmaking"} =>
       \A v \in Users \ {u} : pc[v] = "out"
  /\ initCount = Cardinality(Backed)

Up == at # 0 /\ acfl = at /\ thread[at] \in {"ready", "running"} /\ mp
Coming == at # 0 /\ mp /\ \/ thread[at] \in {"starting", "ended"} /\ acfl = 0
                          \/ thread[at] \in {"ready", "running"} /\ acfl = at
Going == at # 0 /\ mp /\ \/ thread[at] = "ended" /\ acfl = 0
                         \/ thread[at] \in {"ready", "running", "stopped"} /\ acfl = at
Down == ~mp /\ acfl = 0 /\ \A t \in C!Threads : thread[t] \in {"none", "ended"}

Threaded ==
  /\ \A t \in C!Threads : t # at => thread[t] \in {"none", "ended"}
  /\ \A u \in Users : pc[u] \in {"in", "exiting", "created", "failing"} => Up
  /\ \A u \in Users : pc[u] = "waiting" => Coming
  /\ \A u \in Users : pc[u] \in {"stopping", "unmaking"} => Going
  /\ (\A u \in Users : pc[u] \in {"out", "init"}) => Down

ContextsInv ==
  /\ C!TypeOK /\ mp \in BOOLEAN /\ clean \in BOOLEAN
  /\ Locked /\ Counted /\ (clean => Apart /\ Threaded)

LEMMA ContextsInit == C!Init => ContextsInv
  <1> SUFFICES ASSUME C!Init PROVE ContextsInv OBVIOUS
  <1> USE DEF C!Init
  <1>1. \A u \in Users : pc[u] = "out" OBVIOUS
  <1>2. C!UsersOf("default") = {} /\ Active = {} /\ Backed = {}
    BY <1>1 DEF C!UsersOf, Active, Backed
  <1>3. C!TypeOK
    <2>1. \A t \in C!Threads : thread[t] = "none" OBVIOUS
    <2>2. /\ kind \in [Users -> {"default", "own"}]
          /\ pc \in [Users -> {"out", "init", "waiting", "created", "failing", "unmaking", "in",
                               "exiting", "stopping"}]
          /\ thread \in [C!Threads -> {"none", "starting", "ready", "running", "stopped",
                                       "ended"}]
      OBVIOUS
    <2> QED BY <2>2 DEF C!TypeOK
  <1>4. Locked BY <1>1 DEF Locked, Holder
  <1>5. Counted BY <1>2, FS_EmptySet DEF Counted
  <1>6. Apart BY <1>1, <1>2, FS_EmptySet DEF Apart, C!Leaving
  <1>7. Threaded BY <1>1 DEF Threaded, Down
  <1> QED BY <1>3, <1>4, <1>5, <1>6, <1>7 DEF ContextsInv

(* Nobody else has the context of who initializes or leaves it.            *)
LEMMA OwnContext ==
  ASSUME ContextsInv, clean, NEW u \in Users, Holder(u) \/ C!Leaving(u),
         NEW v \in Users \ {u}, v \in Active
  PROVE  C!Context(v) # C!Context(u)
  <1> USE ContextsAssumption DEF ContextsInv
  <1>1. CASE kind[u] = "own"
    BY <1>1 DEF C!Context, C!TypeOK
  <1>2. CASE kind[u] = "default"
    <2>1. ~default /\ ~Holder(v) /\ ~C!Leaving(v)
      BY <1>2 DEF Locked, Apart
    <2>2. pc[v] = "in" BY <2>1 DEF Active, Holder, C!Leaving
    <2>3. kind[v] # "default" BY <2>1, <2>2 DEF Counted, C!UsersOf
    <2> QED BY <1>2, <2>3 DEF C!Context, C!TypeOK
  <1> QED BY <1>1, <1>2 DEF C!TypeOK

LEMMA BackedCount ==
  ASSUME ContextsInv
  PROVE  IsFiniteSet(Active) /\ IsFiniteSet(Backed) /\ Cardinality(Backed) \in Nat
         /\ IsFiniteSet(C!UsersOf("default")) /\ Cardinality(C!UsersOf("default")) \in Nat
  <1>1. Active \subseteq Users /\ C!UsersOf("default") \subseteq Users
    BY DEF Active, C!UsersOf
  <1>2. IsFiniteSet(Active) /\ IsFiniteSet(C!UsersOf("default"))
    BY <1>1, ContextsAssumption, FS_Subset
  <1>3. Backed \subseteq Users \cup {0} BY <1>1 DEF Backed, C!Context
  <1>4. IsFiniteSet(Users \cup {0}) BY ContextsAssumption, FS_AddElement
  <1>5. IsFiniteSet(Backed) BY <1>3, <1>4, FS_Subset
  <1> QED BY <1>2, <1>5, FS_CardinalityType


(* A step of a user, that changes where it is.                             *)
LEMMA ContextsStep == ContextsInv /\ [C!Next]_C!vars => ContextsInv'
  <1> SUFFICES ASSUME ContextsInv, [C!Next]_C!vars PROVE ContextsInv' OBVIOUS
  <1> USE ContextsAssumption DEF ContextsInv
  <1>0. /\ IsFiniteSet(Backed) /\ Cardinality(Backed) \in Nat
        /\ IsFiniteSet(C!UsersOf("default")) /\ Cardinality(C!UsersOf("default")) \in Nat
    BY BackedCount
  <1>a. \A u \in Users : C!Context(u) = IF kind[u] = "default" THEN 0 ELSE u
    BY DEF C!Context
  <1>1. ASSUME NEW u \in Users, C!Reuse(u) PROVE ContextsInv'
    <2> USE <1>1 DEF C!Reuse, C!core, C!backend, C!Goto
    <2>1. /\ \A v \in Users : pc'[v] = IF v = u THEN "in" ELSE pc[v]
          /\ \A v \in Users : kind'[v] = IF v = u THEN "default" ELSE kind[v]
      BY DEF C!TypeOK
    <2>2. C!TypeOK' /\ mp' \in BOOLEAN /\ clean' \in BOOLEAN BY DEF C!TypeOK, C!Threads
    <2>3. Locked' BY <2>1 DEF Locked, Holder
    <2>4. C!UsersOf("default")' = C!UsersOf("default") \cup {u} /\ u \notin C!UsersOf("default")
      BY <2>1 DEF C!UsersOf
    <2>5. Counted' BY <1>0, <2>4, FS_AddElement DEF Counted
    <2>6. ASSUME clean PROVE Apart' /\ Threaded'
      <3> USE <2>6
      <3>1. PICK w \in Users : pc[w] = "in" /\ kind[w] = "default"
        BY DEF Counted, C!UsersOf
      <3>2. \A v \in Users : C!Context(v)' = IF v = u THEN 0 ELSE C!Context(v)
        BY <2>1 DEF C!Context
      <3>3. Active' = Active \cup {u} /\ w \in Active /\ u \notin Active
        BY <2>1, <3>1 DEF Active
      <3>4. C!Context(w) = 0 BY <1>a, <3>1
      <3>5. Backed' = Backed
        <4>1. Backed' = {C!Context(v)' : v \in Active'} BY DEF Backed
        <4> QED BY <4>1, <3>2, <3>3, <3>4 DEF Backed, Active
      <3>6. Apart' BY <2>1, <3>1, <3>2, <3>4, <3>5 DEF Apart, C!Leaving
      <3>7. Threaded' BY <2>1, <3>1 DEF Threaded, Up, Coming, Going, Down, C!Threads
      <3> QED BY <3>6, <3>7
    <2> QED BY <2>2, <2>3, <2>5, <2>6
  <1>2. ASSUME NEW u \in Users, NEW k \in {"default", "own"}, C!Create(u, k) PROVE ContextsInv'
    <2> USE <1>2 DEF C!Create, C!core, C!backend, C!Goto
    <2>1. /\ \A v \in Users : pc'[v] = IF v = u THEN "init" ELSE pc[v]
          /\ \A v \in Users : kind'[v] = IF v = u THEN k ELSE kind[v]
      BY DEF C!TypeOK
    <2>2. C!TypeOK' /\ mp' \in BOOLEAN /\ clean' \in BOOLEAN BY DEF C!TypeOK, C!Threads
    <2>3. Locked' BY <2>1 DEF Locked, Holder
    <2>4. C!UsersOf("default")' = C!UsersOf("default") BY <2>1 DEF C!UsersOf
    <2>5. Counted' BY <2>4 DEF Counted
    <2>6. ASSUME clean' PROVE Apart' /\ Threaded'
      <3>0. clean /\ \A v \in Users : ~C!Leaving(v) BY <2>6
      <3>2. \A v \in Active : C!Context(v)' = C!Context(v) BY <2>1 DEF C!Context, Active
      <3>3. Active' = Active BY <2>1 DEF Active
      <3>5. Backed' = Backed
        <4>1. Backed' = {C!Context(v)' : v \in Active'} BY DEF Backed
        <4> QED BY <4>1, <3>2, <3>3 DEF Backed
      <3>6. \A v \in Users : pc[v] \notin {"waiting", "stopping", "unmaking"}
        BY <3>0 DEF Locked, Holder, C!Leaving
      <3>7. Apart'
        <4>1. \A v \in Users : ~C!Leaving(v)' BY <2>1, <3>0 DEF C!Leaving
        <4>2. \A v \in Users : pc'[v] = "in" => C!Context(v)' \in contexts'
          BY <2>1, <3>0 DEF Apart, C!Context
        <4>3. \A v \in Users : pc'[v] \notin {"waiting", "stopping", "unmaking"} BY <2>1, <3>6
        <4>4. initCount' = Cardinality(Backed') BY <3>0, <3>5 DEF Apart
        <4> QED BY <4>1, <4>2, <4>3, <4>4 DEF Apart
      <3>8. Threaded' BY <2>1, <3>0, <3>6 DEF Threaded, Up, Coming, Going, Down, C!Threads
      <3> QED BY <3>7, <3>8
    <2> QED BY <2>2, <2>3, <2>5, <2>6
  <1>3. ASSUME NEW u \in Users, C!DarwinInit(u) PROVE ContextsInv'
    <2> USE <1>3 DEF C!DarwinInit, C!core, C!Goto
    <2>1. PICK p \in {"created", "waiting"} :
            /\ pc' = [pc EXCEPT ![u] = p]
            /\ \/ p = "created" /\ initCount # 0 /\ UNCHANGED <<mp, at, thread, served>>
               \/ /\ p = "waiting" /\ initCount = 0 /\ C!NewThreads # {} /\ mp' = TRUE
                  /\ at' = C!Min(C!NewThreads)
                  /\ thread' = [thread EXCEPT ![C!Min(C!NewThreads)] = "starting"]
      OBVIOUS
    <2>2. \A v \in Users : pc'[v] = IF v = u THEN p ELSE pc[v] BY <2>1 DEF C!TypeOK
    <2>3. C!NewThreads # {} => C!Min(C!NewThreads) \in C!NewThreads
      BY ContextsMin DEF C!NewThreads, C!Threads
    <2>4. C!TypeOK' /\ mp' \in BOOLEAN /\ clean' \in BOOLEAN
      <3>1. pc' \in [Users -> {"out", "init", "waiting", "created", "failing", "unmaking", "in",
                               "exiting", "stopping"}]
        BY <2>1 DEF C!TypeOK
      <3>2. thread' \in [C!Threads -> {"none", "starting", "ready", "running", "stopped", "ended"}]
            /\ at' \in C!Threads \cup {0}
        BY <2>1, <2>3 DEF C!TypeOK, C!NewThreads
      <3>3. mp' \in BOOLEAN BY <2>1
      <3> QED BY <3>1, <3>2, <3>3 DEF C!TypeOK, C!Threads
    <2>5. Locked' BY <2>1, <2>2 DEF Locked, Holder
    <2>6. C!UsersOf("default")' = C!UsersOf("default") BY <2>2 DEF C!UsersOf
    <2>7. Counted' BY <2>6 DEF Counted
    <2>8. ASSUME clean' PROVE Apart' /\ Threaded'
      <3> USE <2>8
      <3>1. \A v \in Users : C!Context(v)' = C!Context(v) BY DEF C!Context
      <3>2. Active' = Active \cup {u} /\ u \notin Active BY <2>1, <2>2 DEF Active
      <3>3. Backed' = Backed \cup {C!Context(u)}
        <4>1. Backed' = {C!Context(v)' : v \in Active'} BY DEF Backed
        <4> QED BY <4>1, <3>1, <3>2 DEF Backed, Active
      <3>4. C!Context(u) \notin Backed
        <4> SUFFICES ASSUME NEW v \in Active PROVE C!Context(v) # C!Context(u) BY DEF Backed
        <4>1. v \in Users \ {u} BY <3>2 DEF Active
        <4>2. Holder(u) BY DEF Holder
        <4> QED BY <4>1, <4>2, OwnContext
      <3>5. initCount' = Cardinality(Backed')
        BY <1>0, <3>3, <3>4, FS_AddElement DEF Apart
      <3>6. \A v \in Users \ {u} : ~Holder(v) /\ ~C!Leaving(v)
        BY DEF Locked, Apart, Holder
      <3>7. \A v \in Users \ {u} : pc[v] \in {"in", "out"}
        BY <3>6 DEF Holder, C!Leaving, C!TypeOK
      <3>8. p = "waiting" => \A v \in Users \ {u} : pc[v] = "out"
        <4> SUFFICES ASSUME p = "waiting", NEW v \in Users \ {u}, pc[v] = "in" PROVE FALSE
          BY <3>7
        <4>1. C!Context(v) \in Backed BY DEF Backed, Active
        <4>2. Cardinality(Backed) = 0 BY <2>1 DEF Apart
        <4> QED BY <1>0, <4>1, <4>2, FS_EmptySet
      <3>9. p = "created" => \E v \in Users \ {u} : pc[v] = "in"
        <4> SUFFICES ASSUME p = "created", \A v \in Users \ {u} : pc[v] = "out" PROVE FALSE
          BY <3>7
        <4>1. Active = {} BY <3>2 DEF Active
        <4>2. Backed = {} BY <4>1 DEF Backed
        <4> QED BY <2>1, <4>2, FS_EmptySet DEF Apart
      <3>10. Apart'
        <4>1. \A v \in Users : ~C!Leaving(v)' BY <2>1, <2>2, <3>6 DEF C!Leaving
        <4>2. \A v \in Users : pc'[v] = "in" => C!Context(v)' \in contexts'
          BY <2>1, <2>2, <3>1 DEF Apart
        <4>3. \A v \in Users : pc'[v] \in {"waiting", "stopping", "unmaking"} =>
                \A w \in Users \ {v} : pc'[w] = "out"
          BY <2>1, <2>2, <3>7, <3>8
        <4> QED BY <4>1, <4>2, <4>3, <3>5 DEF Apart
      <3>11. Threaded'
        <4>1. CASE p = "created"
          <5>1. Up BY <3>9, <4>1 DEF Threaded
          <5>2. \A v \in Users : pc'[v] \in {"in", "out", "created"} BY <2>2, <3>7, <4>1
          <5>3. UNCHANGED <<mp, at, thread, acfl>> BY <2>1, <4>1
          <5>4. pc'[u] = "created" BY <2>2, <4>1
          <5> QED BY <5>1, <5>2, <5>3, <5>4 DEF Threaded, Up, C!Threads
        <4>2. CASE p = "waiting"
          <5> DEFINE t == C!Min(C!NewThreads)
          <5>1. Down
            <6>1. \A v \in Users : pc[v] \in {"out", "init"} BY <3>8, <4>2
            <6> QED BY <6>1 DEF Threaded
          <5>2. /\ t \in C!Threads /\ at' = t /\ mp' = TRUE
                /\ thread' = [thread EXCEPT ![t] = "starting"] /\ UNCHANGED acfl
            BY <2>1, <2>3, <4>2 DEF C!NewThreads
          <5>3. \A v \in Users : pc'[v] \in {"out", "waiting"} BY <2>2, <3>8, <4>2
          <5>4. pc'[u] = "waiting" BY <2>2, <4>2
          <5> HIDE DEF t
          <5>5. /\ thread'[t] = "starting" /\ t # 0
                /\ \A s \in C!Threads : s # t => thread'[s] = thread[s]
            BY <5>2 DEF C!TypeOK, C!Threads
          <5>6. Coming' BY <5>1, <5>2, <5>5 DEF Coming, Down
          <5>7. \A s \in C!Threads : s # at' => thread'[s] \in {"none", "ended"}
            BY <5>1, <5>2, <5>5 DEF Down
          <5> QED BY <5>3, <5>4, <5>6, <5>7 DEF Threaded, C!Threads
        <4> QED BY <2>1, <4>1, <4>2
      <3> QED BY <3>10, <3>11
    <2> QED BY <2>4, <2>5, <2>7, <2>8
  <1>4. ASSUME NEW u \in Users, C!DarwinInitFails(u) PROVE ContextsInv'
    <2> USE <1>4 DEF C!DarwinInitFails, C!Goto
    <2>1. \A v \in Users : pc'[v] = IF v = u THEN "out" ELSE pc[v] BY DEF C!TypeOK
    <2>2. C!TypeOK' /\ mp' \in BOOLEAN /\ clean' = FALSE BY DEF C!TypeOK, C!Threads
    <2>3. Locked'
      <3>1. \A v \in Users : ~Holder(v)' BY <2>1 DEF Locked, Holder
      <3> QED BY <3>1 DEF Locked
    <2>4. C!UsersOf("default")' = C!UsersOf("default") BY <2>1 DEF C!UsersOf
    <2>5. Counted' BY <2>4 DEF Counted
    <2> QED BY <2>2, <2>3, <2>5
  <1>5. ASSUME NEW u \in Users, C!Waited(u) PROVE ContextsInv'
    <2> USE <1>5 DEF C!Waited, C!core, C!backend, C!Goto
    <2>1. \A v \in Users : pc'[v] = IF v = u THEN "created" ELSE pc[v] BY DEF C!TypeOK
    <2>2. C!TypeOK' /\ mp' \in BOOLEAN /\ clean' \in BOOLEAN BY DEF C!TypeOK, C!Threads
    <2>3. Locked' BY <2>1 DEF Locked, Holder
    <2>4. C!UsersOf("default")' = C!UsersOf("default") BY <2>1 DEF C!UsersOf
    <2>5. Counted' BY <2>4 DEF Counted
    <2>6. \A v \in Users : C!Context(v)' = C!Context(v) BY DEF C!Context
    <2>7. Active' = Active BY <2>1 DEF Active
    <2>8. Backed' = Backed
      <3>1. Backed' = {C!Context(v)' : v \in Active'} BY DEF Backed
      <3> QED BY <3>1, <2>6, <2>7 DEF Backed, Active
    <2>9. clean => Apart' BY <2>1, <2>6, <2>8 DEF Apart, C!Leaving
    <2>10. clean => Threaded' BY <2>1 DEF Threaded, Up, Coming, Going, Down, C!Threads
    <2> QED BY <2>2, <2>3, <2>5, <2>9, <2>10
  <1>6. ASSUME NEW u \in Users, C!CreateFails(u) PROVE ContextsInv'
    <2> USE <1>6 DEF C!CreateFails, C!core, C!backend, C!Goto
    <2>1. \A v \in Users : pc'[v] = IF v = u THEN "failing" ELSE pc[v] BY DEF C!TypeOK
    <2>2. C!TypeOK' /\ mp' \in BOOLEAN /\ clean' \in BOOLEAN BY DEF C!TypeOK, C!Threads
    <2>3. Locked' BY <2>1 DEF Locked, Holder
    <2>4. C!UsersOf("default")' = C!UsersOf("default") BY <2>1 DEF C!UsersOf
    <2>5. Counted' BY <2>4 DEF Counted
    <2>6. \A v \in Users : C!Context(v)' = C!Context(v) BY DEF C!Context
    <2>7. Active' = Active BY <2>1 DEF Active
    <2>8. Backed' = Backed
      <3>1. Backed' = {C!Context(v)' : v \in Active'} BY DEF Backed
      <3> QED BY <3>1, <2>6, <2>7 DEF Backed, Active
    <2>9. clean => Apart' BY <2>1, <2>6, <2>8 DEF Apart, C!Leaving
    <2>10. clean => Threaded' BY <2>1 DEF Threaded, Up, Coming, Going, Down, C!Threads
    <2> QED BY <2>2, <2>3, <2>5, <2>9, <2>10
  <1>7. ASSUME NEW u \in Users, C!Created(u) PROVE ContextsInv'
    <2> USE <1>7 DEF C!Created, C!backend, C!Goto
    <2>1. \A v \in Users : pc'[v] = IF v = u THEN "in" ELSE pc[v] BY DEF C!TypeOK
    <2>2. C!TypeOK' /\ mp' \in BOOLEAN /\ clean' \in BOOLEAN
      <3>1. contexts' \subseteq Users \cup {0} /\ default' \in BOOLEAN /\ lock' \in BOOLEAN
        BY DEF C!TypeOK, C!Context
      <3> QED BY <3>1 DEF C!TypeOK, C!Threads
    <2>3. Locked'
      <3>1. \A v \in Users : ~Holder(v)' BY <2>1 DEF Locked, Holder
      <3> QED BY <3>1 DEF Locked
    <2>4. Counted'
      <3>1. CASE kind[u] = "default"
        <4>1. /\ C!UsersOf("default")' = C!UsersOf("default") \cup {u}
              /\ u \notin C!UsersOf("default")
          BY <2>1, <3>1 DEF C!UsersOf
        <4> QED BY <1>0, <3>1, <4>1, FS_AddElement DEF Counted
      <3>2. CASE kind[u] # "default"
        <4>1. C!UsersOf("default")' = C!UsersOf("default") BY <2>1, <3>2 DEF C!UsersOf
        <4> QED BY <3>2, <4>1 DEF Counted
      <3> QED BY <3>1, <3>2
    <2>6. \A v \in Users : C!Context(v)' = C!Context(v) BY DEF C!Context
    <2>7. Active' = Active BY <2>1 DEF Active
    <2>8. Backed' = Backed
      <3>1. Backed' = {C!Context(v)' : v \in Active'} BY DEF Backed
      <3> QED BY <3>1, <2>6, <2>7 DEF Backed, Active
    <2>9. clean => Apart'
      <3> HAVE clean
      <3>1. \A v \in Users : ~C!Leaving(v)
        BY DEF Apart, Locked, Holder
      <3>2. \A v \in Users : ~C!Leaving(v)' BY <2>1, <3>1 DEF C!Leaving
      <3>3. \A v \in Users : pc'[v] = "in" => C!Context(v)' \in contexts'
        BY <2>1, <2>6 DEF Apart
      <3>4. \A v \in Users : pc'[v] \notin {"waiting", "stopping", "unmaking"}
        BY <2>1, <3>2 DEF Locked, Holder, C!Leaving
      <3> QED BY <2>8, <3>2, <3>3, <3>4 DEF Apart
    <2>10. clean => Threaded' BY <2>1 DEF Threaded, Up, Coming, Going, Down, C!Threads
    <2> QED BY <2>2, <2>3, <2>4, <2>9, <2>10
  <1>8. ASSUME NEW u \in Users, C!Exit(u) PROVE ContextsInv'
    <2> USE <1>8 DEF C!Exit, C!backend, C!Goto
    <2>1. PICK p \in {"out", "exiting"} :
            /\ pc' = [pc EXCEPT ![u] = p]
            /\ \/ /\ p = "out" /\ kind[u] = "default" /\ default_context_refcnt > 1
                  /\ UNCHANGED clean
               \/ /\ p = "exiting" /\ ~(kind[u] = "default" /\ default_context_refcnt > 1)
                  /\ clean' = (clean /\ ~lock /\ \A v \in Users : ~C!Leaving(v))
      OBVIOUS
    <2>2. \A v \in Users : pc'[v] = IF v = u THEN p ELSE pc[v] BY <2>1 DEF C!TypeOK
    <2>a. /\ default_context_refcnt \in Nat
          /\ kind[u] = "default" => default' = (default_context_refcnt - 1 > 0)
          /\ kind[u] # "default" => default' = default
      <3>1. default_context_refcnt \in Nat BY <1>0 DEF Counted
      <3> QED BY <3>1
    <2>3. C!TypeOK' /\ mp' \in BOOLEAN /\ clean' \in BOOLEAN
      <3>1. default' \in BOOLEAN
        <4>1. (default_context_refcnt - 1 > 0) \in BOOLEAN OBVIOUS
        <4>2. CASE kind[u] = "default" BY <2>a, <4>1, <4>2, Zenon
        <4>3. CASE kind[u] # "default" BY <2>a, <4>3 DEF C!TypeOK
        <4> QED BY <4>2, <4>3
      <3>2. pc' \in [Users -> {"out", "init", "waiting", "created", "failing", "unmaking", "in",
                               "exiting", "stopping"}]
        BY <2>1 DEF C!TypeOK
      <3>3. clean' \in BOOLEAN BY <2>1
      <3> QED BY <3>1, <3>2, <3>3 DEF C!TypeOK, C!Threads
    <2>4. kind[u] = "default" =>
            /\ C!UsersOf("default")' = C!UsersOf("default") \ {u}
            /\ u \in C!UsersOf("default")
            /\ Cardinality(C!UsersOf("default")') = default_context_refcnt - 1
      <3> HAVE kind[u] = "default"
      <3>1. C!UsersOf("default")' = C!UsersOf("default") \ {u} /\ u \in C!UsersOf("default")
        BY <2>1, <2>2 DEF C!UsersOf
      <3> QED BY <1>0, <3>1, FS_RemoveElement DEF Counted
    <2>5. Counted'
      <3>1. CASE kind[u] = "default"
        <4>1. IsFiniteSet(C!UsersOf("default")') BY <1>0, <2>4, <3>1, FS_RemoveElement
        <4>2. default_context_refcnt - 1 = 0 <=> C!UsersOf("default")' = {}
          BY <2>4, <3>1, <4>1, FS_EmptySet
        <4>3. Cardinality(C!UsersOf("default")') \in Nat BY <4>1, FS_CardinalityType
        <4> QED BY <2>a, <2>4, <3>1, <4>2, <4>3 DEF Counted
      <3>2. CASE kind[u] # "default"
        <4>1. C!UsersOf("default")' = C!UsersOf("default") BY <2>2, <3>2 DEF C!UsersOf
        <4> QED BY <3>2, <4>1 DEF Counted
      <3> QED BY <3>1, <3>2
    <2>6. default' => default
      BY <2>a DEF Counted, C!UsersOf
    <2>7. Locked' BY <2>1, <2>2, <2>6 DEF Locked, Holder
    <2>8. \A v \in Users : C!Context(v)' = C!Context(v) BY DEF C!Context
    <2>9. Backed' = Backed
      <3>1. Backed' = {C!Context(v)' : v \in Active'} BY DEF Backed
      <3>2. CASE p = "exiting"
        <4>1. Active' = Active BY <2>2, <3>2 DEF Active
        <4> QED BY <2>8, <3>1, <4>1 DEF Backed, Active
      <3>3. CASE p = "out"
        <4>1. Active' = Active \ {u} BY <2>2, <3>3 DEF Active
        <4>2. kind[u] = "default" /\ default_context_refcnt > 1 BY <2>1, <3>3
        <4>3. C!UsersOf("default")' # {} BY <2>4, <2>a, <4>2, FS_EmptySet
        <4>4. PICK w \in Users \ {u} : pc[w] = "in" /\ kind[w] = "default"
          BY <2>4, <4>2, <4>3 DEF C!UsersOf
        <4>5. w \in Active \ {u} /\ C!Context(w) = C!Context(u)
          BY <1>a, <4>2, <4>4 DEF Active
        <4> QED BY <2>8, <3>1, <4>1, <4>5 DEF Backed, Active
      <3> QED BY <3>2, <3>3
    <2>10. ASSUME clean' PROVE Apart' /\ Threaded'
      <3> USE <2>10
      <3>1. clean BY <2>1
      <3>2. p = "exiting" => ~lock /\ \A v \in Users : ~C!Leaving(v) BY <2>1
      <3>3. p = "exiting" /\ kind[u] = "default" => ~default'
        <4> SUFFICES ASSUME p = "exiting", kind[u] = "default" PROVE ~default' OBVIOUS
        <4>1. ~(default_context_refcnt - 1 > 0) BY <2>1, <2>a
        <4> QED BY <2>a, <4>1, Zenon
      <3>4. \A v \in Users : pc[v] \notin {"waiting", "stopping", "unmaking"}
        <4>1. \A v \in Users : pc[v] \in {"waiting", "stopping", "unmaking"} => v = u
          BY <3>1 DEF Apart
        <4> QED BY <4>1
      <3>5. Apart'
        <4>1. \A v, w \in Users : C!Leaving(v)' /\ C!Leaving(w)' => v = w
          BY <2>1, <2>2, <3>1, <3>2 DEF Apart, C!Leaving
        <4>2. \A v \in Users : C!Leaving(v)' => ~lock' /\ (kind'[v] = "default" => ~default')
          BY <2>1, <2>2, <2>6, <3>1, <3>2, <3>3 DEF Apart, C!Leaving
        <4>3. \A v \in Users : pc'[v] = "in" => C!Context(v)' \in contexts'
          BY <2>1, <2>2, <2>8, <3>1 DEF Apart
        <4>4. \A v \in Users : pc'[v] \notin {"waiting", "stopping", "unmaking"}
          BY <2>1, <2>2, <3>4
        <4>5. initCount' = Cardinality(Backed') BY <2>9, <3>1 DEF Apart
        <4> QED BY <4>1, <4>2, <4>3, <4>4, <4>5 DEF Apart
      <3>6. Up BY <3>1 DEF Threaded
      <3>7. \E v \in Users : pc'[v] \in {"in", "exiting"}
        <4>1. CASE p = "exiting" BY <2>2, <4>1
        <4>2. CASE p = "out"
          <5>1. kind[u] = "default" /\ default_context_refcnt > 1 BY <2>1, <4>2
          <5>2. C!UsersOf("default")' # {} BY <2>4, <2>a, <5>1, FS_EmptySet
          <5> QED BY <5>2 DEF C!UsersOf
        <4> QED BY <4>1, <4>2
      <3>8. \A v \in Users : pc'[v] \notin {"waiting", "stopping", "unmaking"}
        BY <2>1, <2>2, <3>4
      <3>9. Threaded' BY <3>1, <3>6, <3>7, <3>8 DEF Threaded, Up, C!Threads
      <3> QED BY <3>5, <3>9
    <2> QED BY <2>3, <2>5, <2>7, <2>10
  <1>9. ASSUME NEW u \in Users, C!DarwinExit(u) PROVE ContextsInv'
    <2> USE <1>9 DEF C!DarwinExit, C!Goto, C!Done
    <2>1. PICK p \in {"out", "stopping", "unmaking"} :
            /\ pc' = [pc EXCEPT ![u] = p]
            /\ \/ /\ initCount = 1 /\ p = (IF pc[u] = "exiting" THEN "stopping" ELSE "unmaking")
                  /\ UNCHANGED <<lock, contexts>>
                  /\ \/ thread' = [t \in C!Threads |->
                                     IF t = acfl /\ thread[t] # "ended" THEN "stopped" ELSE thread[t]]
                     \/ UNCHANGED thread
               \/ /\ initCount # 1 /\ p = "out" /\ UNCHANGED thread
                  /\ contexts' = IF pc[u] = "failing" THEN contexts ELSE contexts \ {C!Context(u)}
                  /\ lock' = IF pc[u] = "failing" THEN FALSE ELSE lock
      <3>1. CASE initCount = 1 BY <3>1
      <3>2. CASE initCount # 1 BY <3>2
      <3> QED BY <3>1, <3>2
    <2>2. \A v \in Users : pc'[v] = IF v = u THEN p ELSE pc[v] BY <2>1 DEF C!TypeOK
    <2>3. C!TypeOK' /\ mp' \in BOOLEAN /\ clean' \in BOOLEAN
      <3>1. pc' \in [Users -> {"out", "init", "waiting", "created", "failing", "unmaking", "in",
                               "exiting", "stopping"}]
        BY <2>1 DEF C!TypeOK
      <3>2. thread' \in [C!Threads -> {"none", "starting", "ready", "running", "stopped", "ended"}]
        BY <2>1 DEF C!TypeOK
      <3>3. contexts' \subseteq Users \cup {0} /\ lock' \in BOOLEAN BY <2>1 DEF C!TypeOK
      <3> QED BY <3>1, <3>2, <3>3 DEF C!TypeOK, C!Threads
    <2>4. Locked'
      <3>1. CASE pc[u] = "failing" /\ p = "out"
        <4>1. \A v \in Users : ~Holder(v)' BY <2>2, <3>1 DEF Locked, Holder
        <4>2. lock' = FALSE BY <2>1, <3>1
        <4> QED BY <4>1, <4>2 DEF Locked
      <3>2. CASE ~(pc[u] = "failing" /\ p = "out")
        <4>1. lock' = lock BY <2>1, <3>2
        <4>2. \A v \in Users : Holder(v)' <=> Holder(v) BY <2>1, <2>2, <3>2 DEF Holder
        <4> QED BY <4>1, <4>2 DEF Locked
      <3> QED BY <3>1, <3>2
    <2>5. C!UsersOf("default")' = C!UsersOf("default") BY <2>1, <2>2 DEF C!UsersOf
    <2>6. Counted' BY <2>5 DEF Counted
    <2>7. \A v \in Users : C!Context(v)' = C!Context(v) BY DEF C!Context
    <2>8. ASSUME clean PROVE Apart' /\ Threaded'
      <3> USE <2>8
      <3>1. Active' = Active \ {u} /\ u \in Active BY <2>1, <2>2 DEF Active
      <3>2. \A v \in Active \ {u} : C!Context(v) # C!Context(u)
        <4>1. Holder(u) \/ C!Leaving(u) BY DEF Holder, C!Leaving
        <4>2. \A v \in Active \ {u} : v \in Users \ {u} BY DEF Active
        <4> QED BY <4>1, <4>2, OwnContext
      <3>3. Backed' = Backed \ {C!Context(u)} /\ C!Context(u) \in Backed
        <4>1. Backed' = {C!Context(v)' : v \in Active'} BY DEF Backed
        <4>2. Backed' = {C!Context(v) : v \in Active \ {u}} BY <2>7, <3>1, <4>1 DEF Active
        <4> QED BY <3>1, <3>2, <4>2 DEF Backed
      <3>4. initCount' = Cardinality(Backed')
        <4>1. IsFiniteSet(Backed) BY <1>0
        <4>2. Cardinality(Backed \ {C!Context(u)}) = Cardinality(Backed) - 1
          BY <3>3, <4>1, FS_RemoveElement
        <4>3. initCount = Cardinality(Backed) BY DEF Apart
        <4>4. initCount' = initCount - 1 BY <2>1
        <4> QED BY <3>3, <4>2, <4>3, <4>4
      <3>5. \A v \in Users \ {u} : ~C!Leaving(v)
        BY DEF Apart, Locked, Holder, C!Leaving
      <3>6. \A v \in Users \ {u} : ~Holder(v)
        BY DEF Apart, Locked, Holder, C!Leaving
      <3>7. \A v \in Users \ {u} : pc[v] \in {"in", "out"}
        BY <3>5, <3>6 DEF Holder, C!Leaving, C!TypeOK
      <3>8. initCount = 1 => \A v \in Users \ {u} : pc[v] = "out"
        <4> SUFFICES ASSUME initCount = 1, NEW v \in Users \ {u}, pc[v] = "in" PROVE FALSE
          BY <3>7
        <4>1. C!Context(v) \in Backed' BY <3>1, <3>2, <3>3 DEF Backed, Active
        <4>2. Cardinality(Backed') = 0 BY <3>4
        <4>3. IsFiniteSet(Backed') BY <1>0, <3>3, FS_RemoveElement
        <4> QED BY <4>1, <4>2, <4>3, FS_EmptySet
      <3>9. initCount # 1 => \E v \in Users \ {u} : pc[v] = "in"
        <4> SUFFICES ASSUME \A v \in Users \ {u} : pc[v] = "out" PROVE initCount = 1
          BY <3>7
        <4>1. Active = {u} BY <3>1 DEF Active
        <4>2. Backed = {C!Context(u)} BY <4>1 DEF Backed
        <4> QED BY <4>2, FS_Singleton DEF Apart
      <3>10. Up BY DEF Threaded
      <3>11. \A v \in Users : ~C!Leaving(v)' \/ (v = u /\ p = "stopping")
        BY <2>1, <2>2, <3>5 DEF C!Leaving
      <3>12. Apart'
        <4>1. \A v, w \in Users : C!Leaving(v)' /\ C!Leaving(w)' => v = w BY <3>11
        <4>2. \A v \in Users : C!Leaving(v)' => ~lock' /\ (kind'[v] = "default" => ~default')
          <5> SUFFICES ASSUME p = "stopping"
                       PROVE  ~lock' /\ (kind'[u] = "default" => ~default')
            BY <3>11
          <5>1. C!Leaving(u) /\ UNCHANGED <<lock, kind, default>> BY <2>1 DEF C!Leaving
          <5> QED BY <5>1 DEF Apart
        <4>3. \A v \in Users : pc'[v] = "in" => C!Context(v)' \in contexts'
          <5> SUFFICES ASSUME NEW v \in Users, pc'[v] = "in" PROVE C!Context(v) \in contexts'
            BY <2>7
          <5>1. v \in Active \ {u} /\ C!Context(v) \in contexts
            BY <2>1, <2>2 DEF Active, Apart
          <5>2. C!Context(v) # C!Context(u) BY <3>2, <5>1
          <5> QED BY <2>1, <5>1, <5>2
        <4>4. \A v \in Users : pc'[v] \in {"waiting", "stopping", "unmaking"} =>
                \A w \in Users \ {v} : pc'[w] = "out"
          BY <2>1, <2>2, <3>7, <3>8
        <4> QED BY <4>1, <4>2, <4>3, <4>4, <3>4 DEF Apart
      <3>13. Threaded'
        <4>1. CASE p = "out"
          <5>1. \A v \in Users : pc'[v] \in {"in", "out"} BY <2>2, <3>7, <4>1
          <5>2. \E v \in Users : pc'[v] = "in" BY <2>1, <2>2, <3>9, <4>1
          <5>3. UNCHANGED <<mp, at, thread, acfl>> BY <2>1, <4>1
          <5> QED BY <3>10, <5>1, <5>2, <5>3 DEF Threaded, Up, C!Threads
        <4>2. CASE p # "out"
          <5>1. \A v \in Users \ {u} : pc'[v] = "out" BY <2>1, <2>2, <3>8, <4>2
          <5>2. pc'[u] \in {"stopping", "unmaking"} BY <2>1, <2>2, <4>2
          <5>3. /\ UNCHANGED <<mp, at, acfl>> /\ at \in C!Threads
                /\ \A t \in C!Threads \ {at} : thread'[t] = thread[t]
                /\ thread'[at] \in {"ready", "running", "stopped"}
            <6>1. at \in C!Threads BY <3>10 DEF Up, C!TypeOK
            <6> QED BY <2>1, <3>10, <4>2, <6>1 DEF Up
          <5>4. Going' BY <3>10, <5>3 DEF Up, Going
          <5>5. \A t \in C!Threads : t # at' => thread'[t] \in {"none", "ended"}
            BY <5>3 DEF Threaded
          <5> QED BY <5>1, <5>2, <5>4, <5>5 DEF Threaded, C!Threads
        <4> QED BY <4>1, <4>2
      <3> QED BY <3>12, <3>13
    <2> QED BY <2>3, <2>4, <2>6, <2>8
  <1>10. ASSUME NEW u \in Users, C!Join(u) PROVE ContextsInv'
    <2> USE <1>10 DEF C!Join, C!Goto, C!Done
    <2>2. \A v \in Users : pc'[v] = IF v = u THEN "out" ELSE pc[v] BY DEF C!TypeOK
    <2>3. C!TypeOK' /\ mp' \in BOOLEAN /\ clean' \in BOOLEAN
      <3>1. contexts' \subseteq Users \cup {0} /\ lock' \in BOOLEAN BY DEF C!TypeOK
      <3> QED BY <3>1 DEF C!TypeOK, C!Threads
    <2>4. Locked'
      <3>1. CASE pc[u] = "unmaking"
        <4>1. \A v \in Users : ~Holder(v)' BY <2>2, <3>1 DEF Locked, Holder
        <4>2. lock' = FALSE BY <3>1
        <4> QED BY <4>1, <4>2 DEF Locked
      <3>2. CASE pc[u] # "unmaking"
        <4>1. lock' = lock BY <3>2
        <4>2. \A v \in Users : Holder(v)' <=> Holder(v) BY <2>2, <3>2 DEF Holder
        <4> QED BY <4>1, <4>2 DEF Locked
      <3> QED BY <3>1, <3>2
    <2>5. C!UsersOf("default")' = C!UsersOf("default") BY <2>2 DEF C!UsersOf
    <2>6. Counted' BY <2>5 DEF Counted
    <2>7. \A v \in Users : C!Context(v)' = C!Context(v) BY DEF C!Context
    <2>8. ASSUME clean PROVE Apart' /\ Threaded'
      <3> USE <2>8
      <3>1. \A v \in Users : pc'[v] = "out" BY <2>2 DEF Apart
      <3>2. Active' = Active BY <2>2 DEF Active
      <3>3. Backed' = Backed
        <4>1. Backed' = {C!Context(v)' : v \in Active'} BY DEF Backed
        <4> QED BY <2>7, <3>2, <4>1 DEF Backed, Active
      <3>4. Apart' BY <3>1, <3>3 DEF Apart, C!Leaving
      <3>5. Going BY DEF Threaded
      <3>6. thread[at] = "ended" BY <3>5 DEF Going
      <3>7. Down'
        <4>1. \A t \in C!Threads : thread[t] \in {"none", "ended"} BY <3>6 DEF Threaded
        <4> QED BY <3>5, <3>6, <4>1 DEF Down, Going, C!Threads
      <3>8. Threaded' BY <3>1, <3>7 DEF Threaded, C!Threads
      <3> QED BY <3>4, <3>8
    <2> QED BY <2>3, <2>4, <2>6, <2>8
  <1>11. ASSUME NEW t \in C!Threads, C!Started(t) PROVE ContextsInv'
    <2> USE <1>11 DEF C!Started, C!core
    <2>1. /\ thread' = [thread EXCEPT ![t] = "ready"] /\ thread[t] = "starting"
          /\ thread'[t] = "ready" /\ \A s \in C!Threads : s # t => thread'[s] = thread[s]
      BY DEF C!TypeOK
    <2>2. C!TypeOK' /\ mp' \in BOOLEAN /\ clean' \in BOOLEAN BY <2>1 DEF C!TypeOK, C!Threads
    <2>3. Locked' BY DEF Locked, Holder
    <2>4. Counted' BY DEF Counted, C!UsersOf
    <2>5. clean => Apart' BY DEF Apart, Backed, Active, C!Context, C!Leaving
    <2>6. clean => Threaded'
      <3> HAVE clean
      <3>1. t = at BY <2>1 DEF Threaded
      <3>2. \A s \in C!Threads : s # at' => thread'[s] \in {"none", "ended"}
        BY <2>1, <3>1 DEF Threaded
      <3>3. ~Down /\ t # 0 BY <2>1 DEF Down, C!Threads
      <3>4. Up => FALSE BY <2>1, <3>1 DEF Up
      <3>5. Coming => Coming' BY <2>1, <3>1 DEF Coming
      <3>6. Going => FALSE BY <2>1, <3>1 DEF Going
      <3> QED BY <3>2, <3>3, <3>4, <3>5, <3>6 DEF Threaded, C!Threads
    <2> QED BY <2>2, <2>3, <2>4, <2>5, <2>6
  <1>12. ASSUME NEW t \in C!Threads, C!StartFails(t) PROVE ContextsInv'
    <2> USE <1>12 DEF C!StartFails, C!core
    <2>1. /\ thread' = [thread EXCEPT ![t] = "ended"] /\ thread[t] = "starting"
          /\ thread'[t] = "ended" /\ \A s \in C!Threads : s # t => thread'[s] = thread[s]
      BY DEF C!TypeOK
    <2>2. C!TypeOK' /\ mp' \in BOOLEAN /\ clean' \in BOOLEAN BY <2>1 DEF C!TypeOK, C!Threads
    <2>3. Locked' BY DEF Locked, Holder
    <2>4. Counted' BY DEF Counted, C!UsersOf
    <2>5. clean => Apart' BY DEF Apart, Backed, Active, C!Context, C!Leaving
    <2>6. clean => Threaded'
      <3> HAVE clean
      <3>1. t = at BY <2>1 DEF Threaded
      <3>2. \A s \in C!Threads : s # at' => thread'[s] \in {"none", "ended"}
        BY <2>1, <3>1 DEF Threaded
      <3>3. ~Down /\ t # 0 BY <2>1 DEF Down, C!Threads
      <3>4. Up => FALSE BY <2>1, <3>1 DEF Up
      <3>5. Coming => Coming' BY <2>1, <3>1 DEF Coming
      <3>6. Going => FALSE BY <2>1, <3>1 DEF Going
      <3> QED BY <3>2, <3>3, <3>4, <3>5, <3>6 DEF Threaded, C!Threads
    <2> QED BY <2>2, <2>3, <2>4, <2>5, <2>6
  <1>13. ASSUME NEW t \in C!Threads, C!Run(t) PROVE ContextsInv'
    <2> USE <1>13 DEF C!Run, C!core
    <2>1. /\ thread' = [thread EXCEPT ![t] = "running"] /\ thread[t] = "ready"
          /\ thread'[t] = "running" /\ \A s \in C!Threads : s # t => thread'[s] = thread[s]
      BY DEF C!TypeOK
    <2>2. C!TypeOK' /\ mp' \in BOOLEAN /\ clean' \in BOOLEAN BY <2>1 DEF C!TypeOK, C!Threads
    <2>3. Locked' BY DEF Locked, Holder
    <2>4. Counted' BY DEF Counted, C!UsersOf
    <2>5. clean => Apart' BY DEF Apart, Backed, Active, C!Context, C!Leaving
    <2>6. clean => Threaded'
      <3> HAVE clean
      <3>1. t = at BY <2>1 DEF Threaded
      <3>2. \A s \in C!Threads : s # at' => thread'[s] \in {"none", "ended"}
        BY <2>1, <3>1 DEF Threaded
      <3>3. ~Down /\ t # 0 BY <2>1 DEF Down, C!Threads
      <3>4. Up => Up' BY <2>1, <3>1 DEF Up
      <3>5. Coming => Coming' BY <2>1, <3>1 DEF Coming
      <3>6. Going => Going' BY <2>1, <3>1 DEF Going
      <3> QED BY <3>2, <3>3, <3>4, <3>5, <3>6 DEF Threaded, C!Threads
    <2> QED BY <2>2, <2>3, <2>4, <2>5, <2>6
  <1>14. ASSUME NEW t \in C!Threads, C!End(t) PROVE ContextsInv'
    <2> USE <1>14 DEF C!End, C!core
    <2>1. /\ thread' = [thread EXCEPT ![t] = "ended"] /\ thread[t] = "stopped"
          /\ thread'[t] = "ended" /\ \A s \in C!Threads : s # t => thread'[s] = thread[s]
      BY DEF C!TypeOK
    <2>2. C!TypeOK' /\ mp' \in BOOLEAN /\ clean' \in BOOLEAN BY <2>1 DEF C!TypeOK, C!Threads
    <2>3. Locked' BY DEF Locked, Holder
    <2>4. Counted' BY DEF Counted, C!UsersOf
    <2>5. clean => Apart' BY DEF Apart, Backed, Active, C!Context, C!Leaving
    <2>6. clean => Threaded'
      <3> HAVE clean
      <3>1. t = at BY <2>1 DEF Threaded
      <3>2. \A s \in C!Threads : s # at' => thread'[s] \in {"none", "ended"}
        BY <2>1, <3>1 DEF Threaded
      <3>3. ~Down /\ t # 0 BY <2>1 DEF Down, C!Threads
      <3>4. Up => FALSE BY <2>1, <3>1 DEF Up
      <3>5. Coming => FALSE BY <2>1, <3>1 DEF Coming
      <3>6. Going => Going' BY <2>1, <3>1 DEF Going
      <3> QED BY <3>2, <3>3, <3>4, <3>5, <3>6 DEF Threaded, C!Threads
    <2> QED BY <2>2, <2>3, <2>4, <2>5, <2>6
  <1>15. CASE UNCHANGED C!vars
    <2> USE <1>15 DEF C!vars, C!core, C!backend
    <2>1. C!TypeOK' /\ mp' \in BOOLEAN /\ clean' \in BOOLEAN BY DEF C!TypeOK, C!Threads
    <2>2. Locked' /\ Counted' BY DEF Locked, Counted, Holder, C!UsersOf
    <2>3. clean => Apart' BY DEF Apart, Backed, Active, C!Context, C!Leaving
    <2>4. clean => Threaded' BY DEF Threaded, Up, Coming, Going, Down, C!Threads
    <2> QED BY <2>1, <2>2, <2>3, <2>4
  <1> QED BY <1>1, <1>2, <1>3, <1>4, <1>5, <1>6, <1>7, <1>8, <1>9, <1>10, <1>11, <1>12, <1>13,
             <1>14, <1>15 DEF C!Next

(* Contexts and the event thread are there for their users.                *)
LEMMA ContextsSuffices == ContextsInv => C!DefaultCounted /\ C!Served
  <1> SUFFICES ASSUME ContextsInv PROVE C!DefaultCounted /\ C!Served OBVIOUS
  <1> USE DEF ContextsInv
  <1>1. C!DefaultCounted
    <2>1. clean => \A u \in Users : pc[u] = "in" => C!Context(u) \in contexts BY DEF Apart
    <2>2. default <=> C!UsersOf("default") # {} BY DEF Counted
    <2> QED BY <2>1, <2>2, ContextsCardinality DEF C!DefaultCounted, Counted
  <1>2. C!Served
    <2> SUFFICES ASSUME clean
                 PROVE  /\ (\E u \in Users : pc[u] = "in") =>
                             acfl # 0 /\ acfl = at /\ thread[at] \in {"ready", "running"} /\ mp
                        /\ (\A u \in Users : pc[u] = "out") =>
                             initCount = 0 /\ ~mp /\ \A t \in C!Threads : thread[t] \in {"none", "ended"}
      BY DEF C!Served
    <2>1. ASSUME NEW u \in Users, pc[u] = "in"
          PROVE  acfl # 0 /\ acfl = at /\ thread[at] \in {"ready", "running"} /\ mp
      BY <2>1 DEF Threaded, Up
    <2>2. ASSUME \A u \in Users : pc[u] = "out"
          PROVE  initCount = 0 /\ ~mp /\ \A t \in C!Threads : thread[t] \in {"none", "ended"}
      <3>1. Active = {} BY <2>2 DEF Active
      <3>2. Backed = {} BY <3>1 DEF Backed
      <3>3. Down BY <2>2 DEF Threaded
      <3> QED BY <3>2, <3>3, FS_EmptySet DEF Apart, Down
    <2> QED BY <2>1, <2>2
  <1> QED BY <1>1, <1>2

(* The active configuration.                                               *)
LEMMA ConfigCardinality == ASSUME NEW S PROVE L!Cardinality(S) = Cardinality(S)
  BY DEF Cardinality, L!Cardinality

LinuxTypes ==
  /\ L!TypeOK /\ sysfs \in BOOLEAN /\ all \in BOOLEAN
  /\ order \in {<<1, 2>>, <<2, 1>>} /\ lengths \in [L!Configs -> {2, 3}]
Alike == \E c : during = {c}
Uniform == all /\ lengths[1] = lengths[2]

(* What the cache is known to be, and what has been read of the active     *)
(* configuration so far: the length is that of the configuration that is   *)
(* read, if there was only one, or if all are of the same length.          *)
CacheKnown == (sysfs => initialized /\ ~known) /\ (known => cached = active)
ReadSoFar ==
  /\ call # "no" => initialized /\ active \in during
  /\ call = "value" => buf = <<>>
  /\ sysfs /\ call \in {"header", "again", "config", "rest"} => value \in during \ {0}
  /\ sysfs /\ call \in {"again", "config", "rest"} /\ (Alike \/ Uniform) => len = lengths[value]
  /\ sysfs /\ call = "rest" => buf = <<<<value, 1>>>>
  /\ sysfs /\ call = "done" /\ (Alike \/ Uniform) => \E c \in during \ {0} : buf = L!Parts(c)
  /\ ~sysfs /\ call = "done" /\ known => active # 0 /\ buf = L!Parts(active)
  /\ ~sysfs => call \in {"no", "value", "done"}
LinuxInv == LinuxTypes /\ CacheKnown /\ ReadSoFar

(* The files begin with one descriptor and go on with the other.           *)
LEMMA PartsAre ==
  ASSUME LinuxTypes, NEW c \in L!Configs
  PROVE  /\ L!Parts(c) \in Seq(L!Configs \X Nat) /\ Len(L!Parts(c)) = lengths[c] /\ lengths[c] \in {2, 3}
         /\ \A i \in 1 .. lengths[c] : L!Parts(c)[i] = <<c, i>>
  BY DEF LinuxTypes, L!Parts, L!Configs

LEMMA UsbfsIs ==
  ASSUME LinuxTypes
  PROVE  /\ order[1] \in L!Configs /\ order[2] \in L!Configs /\ order[1] # order[2]
         /\ L!Usbfs \in Seq(L!Configs \X Nat) /\ Len(L!Usbfs) = lengths[order[1]] + lengths[order[2]]
         /\ \A i \in 1 .. lengths[order[1]] : L!Usbfs[i] = <<order[1], i>>
         /\ \A i \in 1 .. lengths[order[2]] : L!Usbfs[lengths[order[1]] + i] = <<order[2], i>>
  <1> DEFINE a == order[1]
             b == order[2]
             p == L!Parts(a)
             q == L!Parts(b)
  <1>1. a \in L!Configs /\ b \in L!Configs /\ a # b BY DEF LinuxTypes, L!Configs
  <1>2. /\ p \in Seq(L!Configs \X Nat) /\ Len(p) = lengths[a] /\ lengths[a] \in {2, 3}
        /\ \A i \in 1 .. lengths[a] : p[i] = <<a, i>>
    BY <1>1, PartsAre
  <1>3. /\ q \in Seq(L!Configs \X Nat) /\ Len(q) = lengths[b] /\ lengths[b] \in {2, 3}
        /\ \A i \in 1 .. lengths[b] : q[i] = <<b, i>>
    BY <1>1, PartsAre
  <1>4. L!Usbfs = p \o q BY DEF L!Usbfs
  <1> HIDE DEF p, q, a, b
  <1>5. /\ p \o q \in Seq(L!Configs \X Nat) /\ Len(p \o q) = Len(p) + Len(q)
        /\ \A i \in 1 .. Len(p) + Len(q) : (p \o q)[i] = IF i <= Len(p) THEN p[i] ELSE q[i - Len(p)]
    BY <1>2, <1>3, ConcatProperties
  <1>6. \A i \in 1 .. lengths[a] : (p \o q)[i] = <<a, i>> BY <1>2, <1>3, <1>5
  <1>7. \A i \in 1 .. lengths[b] : (p \o q)[lengths[a] + i] = <<b, i>>
    <2> SUFFICES ASSUME NEW i \in 1 .. lengths[b] PROVE (p \o q)[lengths[a] + i] = <<b, i>> OBVIOUS
    <2>0. /\ i \in Nat \ {0} /\ i =< Len(q) /\ Len(p) \in Nat /\ Len(q) \in Nat
          /\ Len(p) = lengths[a]
      BY <1>2, <1>3
    <2>1. PICK j \in 1 .. Len(p) + Len(q) :
            j = lengths[a] + i /\ ~(j <= Len(p)) /\ j - Len(p) = i
      BY <2>0
    <2>2. (p \o q)[j] = q[i] BY <2>1, <1>5
    <2> QED BY <2>1, <2>2, <1>3
  <1> QED BY <1>1, <1>2, <1>3, <1>4, <1>5, <1>6, <1>7 DEF a, b

LEMMA CacheIs ==
  ASSUME LinuxTypes
  PROVE  /\ \A c \in L!Configs : L!CacheActiveConfig(c) = c
         /\ L!CacheActiveConfig(-1) \in L!Configs /\ L!CacheActiveConfig(0) = cached
  <1> DEFINE a == order[1]
             b == order[2]
  <1>0. /\ a \in L!Configs /\ b \in L!Configs /\ a # b
        /\ L!Usbfs \in Seq(L!Configs \X Nat) /\ Len(L!Usbfs) = lengths[a] + lengths[b]
        /\ \A i \in 1 .. lengths[a] : L!Usbfs[i] = <<a, i>>
        /\ \A i \in 1 .. lengths[b] : L!Usbfs[lengths[a] + i] = <<b, i>>
        /\ lengths[a] \in {2, 3} /\ lengths[b] \in {2, 3}
    BY UsbfsIs, PartsAre
  <1> HIDE DEF a, b
  <1>1. \A m, n \in 1 .. Len(L!Usbfs) : m =< n =>
          SubSeq(L!Usbfs, m, n)[1] = L!Usbfs[m]
    BY <1>0
  <1>a. a = order[1] /\ b = order[2] BY DEF a, b
  <1>2. L!ConfigDescriptor(1)[1][1] = a
    <2>1. L!Usbfs[1] = <<a, 1>> BY <1>0
    <2>2. L!ConfigDescriptor(1) = SubSeq(L!Usbfs, 1, lengths[a]) BY <1>0, <2>1
        DEF L!ConfigDescriptor
    <2>3. 1 \in 1 .. Len(L!Usbfs) /\ lengths[a] \in 1 .. Len(L!Usbfs) /\ 1 =< lengths[a] BY <1>0
    <2> QED BY <1>1, <2>1, <2>2, <2>3
  <1>3. L!ConfigDescriptor(2)[1][1] = b
    <2> DEFINE m == lengths[a] + 1
               n == lengths[a] + lengths[b]
    <2>1. L!Usbfs[1] = <<a, 1>> /\ L!Usbfs[m] = <<b, 1>> BY <1>0
    <2>a. lengths[L!Usbfs[1][1]] = lengths[a] /\ lengths[L!Usbfs[m][1]] = lengths[b] BY <2>1
    <2>b. (IF 2 = 1 THEN 0 ELSE lengths[L!Usbfs[1][1]]) = lengths[a] BY <2>a
    <2>2. L!ConfigDescriptor(2) = SubSeq(L!Usbfs, m, n) BY <2>a, <2>b, Zenon DEF L!ConfigDescriptor
    <2>3. m \in 1 .. Len(L!Usbfs) /\ n \in 1 .. Len(L!Usbfs) /\ m =< n BY <1>0
    <2> HIDE DEF m, n
    <2> QED BY <1>1, <2>1, <2>2, <2>3
  <1>4. ASSUME NEW c \in L!Configs PROVE L!CacheActiveConfig(c) = c
    <2>1. c = order[1] \/ c = order[2] BY <1>0, <1>a DEF L!Configs
    <2>2. L!IndexByValue(c) \in 1 .. 2 /\ order[L!IndexByValue(c)] = c
      <3>1. \E i \in 1 .. 2 : order[i] = c BY <2>1
      <3> QED BY <3>1 DEF L!IndexByValue
    <2>3. c # -1 BY DEF L!Configs
    <2> QED BY <1>a, <1>2, <1>3, <2>2, <2>3 DEF L!CacheActiveConfig
  <1>5. L!CacheActiveConfig(-1) = a BY <1>2 DEF L!CacheActiveConfig
  <1>6. L!CacheActiveConfig(0) = cached BY DEF L!CacheActiveConfig, L!IndexByValue, L!Configs
  <1> QED BY <1>0, <1>4, <1>5, <1>6

LEMMA LinuxInit == L!Init => LinuxInv
  <1> SUFFICES ASSUME L!Init PROVE LinuxInv OBVIOUS
  <1>1. LinuxTypes
    <2>1. initialized \in BOOLEAN /\ known \in BOOLEAN BY DEF L!Init
    <2>2. /\ active \in {0, 1, 2} /\ cached = 0 /\ value = 0 /\ len = 0 /\ call = "no"
          /\ during = {}
      BY DEF L!Init
    <2>3. L!TypeOK BY <2>1, <2>2 DEF L!TypeOK
    <2> QED BY <2>3 DEF L!Init, LinuxTypes
  <1>2. CacheKnown BY DEF L!Init, CacheKnown
  <1>3. ReadSoFar BY DEF L!Init, ReadSoFar
  <1> QED BY <1>1, <1>2, <1>3 DEF LinuxInv

(* What is read begins at the place of the value, and goes on to its end.  *)
LEMMA ReadsWhole ==
  ASSUME LinuxInv, L!ReadRest, Alike \/ Uniform
  PROVE  buf' = L!Parts(value)
  <1>0. /\ sysfs /\ call = "rest" /\ len = lengths[value] /\ buf = <<<<value, 1>>>>
        /\ value \in during \ {0} /\ active \in during /\ LinuxTypes
    BY DEF LinuxInv, ReadSoFar, L!ReadRest
  <1>1. value \in L!Configs BY <1>0 DEF LinuxTypes, L!TypeOK, L!Configs
  <1> DEFINE n == lengths[value]
             q == L!Parts(value)
  <1>2. /\ n \in {2, 3} /\ q \in Seq(L!Configs \X Nat) /\ Len(q) = n
        /\ \A i \in 1 .. n : q[i] = <<value, i>>
    BY <1>0, <1>1, PartsAre
  <1>3. \E k \in Nat, d \in Seq(L!Configs \X Nat) :
           /\ buf' = <<<<value, 1>>>> \o SubSeq(d, k + 2, k + n)
           /\ k + n =< Len(d) /\ \A i \in 1 .. n : d[k + i] = <<value, i>>
    <2>1. CASE all
      <3> DEFINE a == order[1]
                 b == order[2]
      <3>1. /\ L!Descriptors = L!Usbfs BY <2>1 DEF L!Descriptors
      <3>2. /\ a \in L!Configs /\ b \in L!Configs /\ a # b
            /\ L!Usbfs \in Seq(L!Configs \X Nat) /\ Len(L!Usbfs) = lengths[a] + lengths[b]
            /\ \A i \in 1 .. lengths[a] : L!Usbfs[i] = <<a, i>>
            /\ \A i \in 1 .. lengths[b] : L!Usbfs[lengths[a] + i] = <<b, i>>
            /\ lengths[a] \in {2, 3} /\ lengths[b] \in {2, 3}
        BY <1>0, UsbfsIs, PartsAre
      <3>3. value = a \/ value = b BY <1>1, <3>2 DEF L!Configs
      <3> HIDE DEF a, b
      <3>4. PICK k \in {0, lengths[a]} :
              k + n =< Len(L!Usbfs) /\ \A i \in 1 .. n : L!Usbfs[k + i] = <<value, i>>
        <4>1. CASE value = a BY <4>1, <3>2
        <4>2. CASE value = b BY <4>2, <3>2
        <4> QED BY <3>3, <4>1, <4>2
      <3>5. L!Places = {k + 1}
        <4>0. 1 \in 1 .. n /\ n \in Nat /\ k \in Nat /\ k + n =< Len(L!Usbfs) BY <1>2, <3>2, <3>4
        <4>1. k + 1 \in DOMAIN L!Usbfs /\ L!Usbfs[k + 1] = <<value, 1>>
          <5>1. L!Usbfs[k + 1] = <<value, 1>> BY <3>4, <4>0
          <5>2. k + 1 \in 1 .. Len(L!Usbfs) /\ Len(L!Usbfs) \in Nat BY <3>2, <4>0
          <5> QED BY <3>2, <5>1, <5>2
        <4>2. ASSUME NEW i \in DOMAIN L!Usbfs, L!Usbfs[i] = <<value, 1>> PROVE i = k + 1
          <5>0. /\ lengths[a] \in Nat /\ lengths[b] \in Nat /\ i \in Nat \ {0}
                /\ i =< lengths[a] + lengths[b]
            BY <3>2
          <5>1. i \in 1 .. lengths[a] \/ i - lengths[a] \in 1 .. lengths[b] BY <5>0
          <5>2. CASE i \in 1 .. lengths[a]
            <6>1. L!Usbfs[i] = <<a, i>> BY <5>2, <3>2
            <6>2. i = 1 /\ value = a BY <6>1, <4>2
            <6>3. k = 0
              <7>1. CASE k = lengths[a]
                <8>1. lengths[a] + 1 \in lengths[a] + 1 .. Len(L!Usbfs) /\ 1 \in 1 .. lengths[b]
                  BY <3>2
                <8>2. L!Usbfs[k + 1] = <<b, 1>> BY <7>1, <8>1, <3>2
                <8> QED BY <8>2, <4>1, <6>2, <3>2
              <7> QED BY <7>1, <3>4
            <6> QED BY <6>2, <6>3
          <5>3. CASE i - lengths[a] \in 1 .. lengths[b]
            <6> DEFINE j == i - lengths[a]
            <6>1. i = lengths[a] + j /\ j \in 1 .. lengths[b] BY <5>3, <3>2
            <6> HIDE DEF j
            <6>2. L!Usbfs[i] = <<b, j>> BY <6>1, <3>2
            <6>3. j = 1 /\ value = b BY <6>2, <4>2
            <6>4. k = lengths[a]
              <7>1. CASE k = 0
                <8>1. L!Usbfs[k + 1] = <<a, 1>> BY <7>1, <3>2
                <8> QED BY <8>1, <4>1, <6>3, <3>2
              <7> QED BY <7>1, <3>4
            <6> QED BY <6>1, <6>3, <6>4
          <5> QED BY <5>1, <5>2, <5>3
        <4> QED BY <3>1, <4>1, <4>2 DEF L!Places
      <3>6. buf' = buf \o SubSeq(L!Usbfs, (k + 1) + 1, (k + 1) + len - 1)
        BY <2>1, <3>1, <3>5 DEF L!ReadRest
      <3>a. n \in Nat /\ k \in Nat BY <1>2, <3>2
      <3>7. k \in Nat /\ (k + 1) + 1 = k + 2 /\ (k + 1) + n - 1 = k + n BY <3>a
      <3> QED BY <1>0, <3>2, <3>4, <3>6, <3>7
    <2>2. CASE ~all
      <3>1. value = active BY <1>0, <2>2 DEF Alike, Uniform
      <3>2. L!Descriptors = q BY <2>2, <3>1, <1>0 DEF L!Descriptors
      <3>3. buf' = buf \o SubSeq(q, 1 + 1, 1 + len - 1) BY <2>2, <3>2 DEF L!ReadRest
      <3>4. 1 + 1 = 0 + 2 /\ 1 + n - 1 = 0 + n BY <1>2
      <3>5. 0 + n =< Len(q) /\ \A i \in 1 .. n : q[0 + i] = <<value, i>> BY <1>2
      <3> HIDE DEF q, n
      <3> QED BY <1>0, <1>2, <3>3, <3>4, <3>5 DEF n
    <2> QED BY <2>1, <2>2
  <1>4. PICK k \in Nat, d \in Seq(L!Configs \X Nat) :
           /\ buf' = <<<<value, 1>>>> \o SubSeq(d, k + 2, k + n)
           /\ k + n =< Len(d) /\ \A i \in 1 .. n : d[k + i] = <<value, i>>
    BY <1>3
  <1> DEFINE s == SubSeq(d, k + 2, k + n)
             h == <<<<value, 1>>>>
  <1>5. /\ s \in Seq(L!Configs \X Nat) /\ Len(s) = n - 1
        /\ \A i \in 1 .. n - 1 : s[i] = d[k + 1 + i]
    <2>1. PICK m \in {2, 3} : m = n BY <1>2
    <2>2. s = SubSeq(d, k + 2, k + m) /\ k + m =< Len(d) BY <2>1, <1>4
    <2> HIDE DEF n, s
    <2>3. Len(s) = m - 1 /\ s \in Seq(L!Configs \X Nat) BY <2>2
    <2>4. \A i \in 1 .. m - 1 : s[i] = d[k + 1 + i] BY <2>2
    <2> QED BY <2>1, <2>3, <2>4
  <1>6. h \in Seq(L!Configs \X Nat) /\ Len(h) = 1 /\ h[1] = <<value, 1>> BY <1>1
  <1> HIDE DEF s, h
  <1>7. /\ h \o s \in Seq(L!Configs \X Nat) /\ Len(h \o s) = Len(h) + Len(s)
        /\ \A i \in 1 .. Len(h) + Len(s) : (h \o s)[i] = IF i <= Len(h) THEN h[i] ELSE s[i - Len(h)]
    BY <1>5, <1>6, ConcatProperties
  <1> DEFINE r == h \o s
  <1> HIDE DEF r, q
  <1>8. r \in Seq(L!Configs \X Nat) /\ Len(r) = n BY <1>2, <1>5, <1>6, <1>7 DEF r
  <1>9. \A i \in 1 .. n : r[i] = q[i]
    <2> SUFFICES ASSUME NEW i \in 1 .. n PROVE r[i] = q[i] OBVIOUS
    <2>0. q[i] = <<value, i>> /\ i \in Nat \ {0} /\ i =< n /\ n \in Nat BY <1>2
    <2>1. CASE i = 1 BY <2>0, <2>1, <1>5, <1>6, <1>7 DEF r
    <2>2. CASE i > 1
      <3>1. i \in 1 .. Len(h) + Len(s) /\ ~(i <= Len(h)) /\ i - Len(h) = i - 1
        BY <2>0, <2>2, <1>5, <1>6
      <3>2. r[i] = s[i - 1] BY <3>1, <1>7 DEF r
      <3>3. i - 1 \in 1 .. n - 1 /\ k + 1 + (i - 1) = k + i BY <2>0, <2>2
      <3>4. s[i - 1] = d[k + 1 + (i - 1)] BY <3>3, <1>5
      <3>5. s[i - 1] = d[k + i] BY <3>3, <3>4
      <3> QED BY <3>2, <3>5, <2>0, <1>4
    <2> QED BY <2>0, <2>1, <2>2
  <1>10. r = q BY <1>2, <1>8, <1>9, SeqEqual
  <1> QED BY <1>4, <1>10 DEF r, q, h, s

LEMMA LinuxStep == LinuxInv /\ [L!Next]_L!vars => LinuxInv'
  <1> SUFFICES ASSUME LinuxInv, [L!Next]_L!vars PROVE LinuxInv' OBVIOUS
  <1> USE DEF LinuxInv, L!rigid, L!device, L!reading
  <1>0. LinuxTypes /\ active \in {0, 1, 2} /\ L!TypeOK BY DEF LinuxTypes, L!TypeOK
  <1>a. ASSUME UNCHANGED <<L!rigid, L!device>>, L!TypeOK' PROVE LinuxTypes' /\ CacheKnown'
    BY <1>a DEF LinuxTypes, CacheKnown
  <1>b. ASSUME UNCHANGED lengths PROVE \A c : L!Parts(c)' = L!Parts(c) BY <1>b DEF L!Parts
  <1>1. CASE L!InitializeDevice
    <2>1. PICK linked, readonly \in BOOLEAN :
            LET none == active = 0 /\ (linked \/ ~readonly)
            IN cached' = IF none THEN 0 ELSE L!CacheActiveConfig(IF readonly THEN -1 ELSE active)
      BY <1>1 DEF L!InitializeDevice
    <2>2. cached' \in {0, 1, 2}
      BY <1>0, <2>1, CacheIs DEF L!Configs, L!TypeOK
    <2>3. (known' <=> cached' = active) /\ known' \in BOOLEAN /\ active' = active
      BY <1>1 DEF L!InitializeDevice
    <2>4. LinuxTypes' BY <1>0, <1>1, <2>2, <2>3 DEF L!InitializeDevice, LinuxTypes, L!TypeOK
    <2>5. CacheKnown' BY <1>1, <2>3 DEF CacheKnown, L!InitializeDevice
    <2>6. call = "no" /\ UNCHANGED <<L!rigid, L!reading>> BY <1>1 DEF L!InitializeDevice, ReadSoFar
    <2>7. ReadSoFar' BY <2>6 DEF ReadSoFar
    <2> QED BY <2>4, <2>5, <2>7
  <1>2. CASE L!InitializeUnconfigured
    <2>1. (known' <=> active = 0) /\ known' \in BOOLEAN /\ active' = active /\ cached' = 0
      BY <1>2 DEF L!InitializeUnconfigured
    <2>2. LinuxTypes' BY <1>0, <1>2, <2>1 DEF L!InitializeUnconfigured, LinuxTypes, L!TypeOK
    <2>3. CacheKnown' BY <1>2, <2>1 DEF CacheKnown, L!InitializeUnconfigured
    <2>4. call = "no" /\ UNCHANGED <<L!rigid, L!reading>> BY <1>2 DEF L!InitializeUnconfigured,
                                                             ReadSoFar
    <2>5. ReadSoFar' BY <2>4 DEF ReadSoFar
    <2> QED BY <2>2, <2>3, <2>5
  <1>3. ASSUME NEW c \in {-1, 0, 1, 2}, L!SetConfiguration(c) PROVE LinuxInv'
    <2>1. /\ call = "no" /\ active' = (IF c = -1 THEN 0 ELSE c) /\ during' = during
          /\ UNCHANGED <<L!rigid, initialized, call, value, len, buf>>
      BY <1>3 DEF L!SetConfiguration, L!Activates
    <2>2. active' \in {0, 1, 2} BY <2>1
    <2>3. \/ sysfs /\ UNCHANGED <<cached, known>>
          \/ ~sysfs /\ c = -1 /\ cached' = 0 /\ known' = TRUE
          \/ ~sysfs /\ c = 0 /\ cached' = cached /\ known' = FALSE
          \/ ~sysfs /\ c \in L!Configs /\ cached' = c /\ known' = TRUE
          \/ known' = FALSE /\ UNCHANGED cached
      <3>1. CASE sysfs BY <3>1, <1>3 DEF L!SetConfiguration
      <3>2. CASE ~sysfs /\ known' = FALSE /\ UNCHANGED cached BY <3>2
      <3>3. CASE /\ ~sysfs /\ known' = (c # 0)
                 /\ cached' = (IF c = -1 THEN 0 ELSE L!CacheActiveConfig(c))
        <4>1. CASE c = -1
          <5>1. (c # 0) = TRUE BY <4>1
          <5> QED BY <3>3, <4>1, <5>1
        <4>2. CASE c = 0
          <5>1. (c # 0) = FALSE /\ c # -1 BY <4>2
          <5> QED BY <1>0, <3>3, <4>2, <5>1, CacheIs
        <4>3. CASE c \in L!Configs
          <5>1. L!CacheActiveConfig(c) = c /\ c # 0 /\ c # -1 BY <1>0, <4>3, CacheIs DEF L!Configs
          <5> QED BY <3>3, <4>3, <5>1
        <4> QED BY <4>1, <4>2, <4>3 DEF L!Configs
      <3> QED BY <1>3, <3>1, <3>2, <3>3 DEF L!SetConfiguration
    <2>4. LinuxTypes' BY <1>0, <2>1, <2>2, <2>3 DEF LinuxTypes, L!TypeOK, L!Configs
    <2>5. ReadSoFar' BY <2>1 DEF ReadSoFar
    <2>6. CacheKnown' BY <2>1, <2>3 DEF CacheKnown, L!Configs
    <2> QED BY <2>4, <2>5, <2>6
  <1>4. ASSUME NEW c \in {0, 1, 2}, L!Reconfigure(c) PROVE LinuxInv'
    <2>1. /\ c # active /\ active' = c /\ known' = FALSE
          /\ during' = IF call = "no" THEN during ELSE during \cup {c}
          /\ UNCHANGED <<L!rigid, cached, initialized, call, value, len, buf>>
      BY <1>4 DEF L!Reconfigure, L!Activates
    <2>a. during' \subseteq {0, 1, 2} BY <1>0, <2>1 DEF LinuxTypes, L!TypeOK
    <2>d. L!TypeOK' BY <1>0, <2>1, <2>a DEF LinuxTypes, L!TypeOK
    <2>b. LinuxTypes' BY <1>0, <2>1, <2>d DEF LinuxTypes
    <2>c. CacheKnown' BY <1>0, <2>1 DEF CacheKnown
    <2>2. LinuxTypes' /\ CacheKnown' BY <2>b, <2>c
    <2>3. call # "no" => active \in during /\ during' = during \cup {c} BY <2>1 DEF ReadSoFar
    <2>4. call # "no" => ~Alike' BY <2>1, <2>3 DEF Alike
    <2>5. Uniform' = Uniform BY <2>1 DEF Uniform
    <2>6. \A d : L!Parts(d)' = L!Parts(d) BY <1>b, <2>1
    <2>7. during \subseteq during' BY <2>1
    <2>8. ReadSoFar' BY <2>1, <2>3, <2>4, <2>5, <2>6, <2>7 DEF ReadSoFar
    <2> QED BY <2>2, <2>8
  <1>5. CASE L!Begin
    <2>1. /\ initialized /\ call' = "value" /\ value' = 0 /\ len' = 0 /\ buf' = <<>>
          /\ during' = {active} /\ UNCHANGED <<L!rigid, L!device>>
      BY <1>5 DEF L!Begin
    <2>2. L!TypeOK' BY <1>0, <2>1 DEF L!TypeOK
    <2>3. ReadSoFar' BY <2>1 DEF ReadSoFar
    <2> QED BY <1>a, <2>1, <2>2, <2>3
  <1>6. CASE L!Fails \/ L!Return
    <2>1. /\ call' = "no" /\ value' = 0 /\ len' = 0
          /\ UNCHANGED <<L!rigid, L!device, during>>
      BY <1>6 DEF L!Fails, L!Return, L!Ends
    <2>2. L!TypeOK' BY <1>0, <2>1 DEF L!TypeOK
    <2>3. ReadSoFar' BY <2>1 DEF ReadSoFar
    <2> QED BY <1>a, <2>1, <2>2, <2>3
  <1>7. CASE L!ActiveConfig
    <2>1. /\ sysfs /\ active # 0 /\ value' = active
          /\ \/ call = "value" /\ call' = "header"
             \/ call = "again" /\ call' = "config"
          /\ UNCHANGED <<L!rigid, L!device, len, buf, during>>
      BY <1>7 DEF L!ActiveConfig
    <2>2. L!TypeOK' BY <1>0, <2>1 DEF L!TypeOK
    <2>3. active \in during /\ initialized BY <2>1 DEF ReadSoFar
    <2>4. Alike' = Alike /\ Uniform' = Uniform BY <2>1 DEF Alike, Uniform
    <2>5. ASSUME call = "again", Alike \/ Uniform PROVE len = lengths[active]
      <3>1. len = lengths[value] /\ value \in during \ {0} BY <2>1, <2>5 DEF ReadSoFar
      <3>2. CASE Alike BY <2>3, <3>1, <3>2 DEF Alike
      <3>3. CASE Uniform
        <4>1. value \in {1, 2} /\ active \in {1, 2} BY <1>0, <2>1, <3>1 DEF L!TypeOK
        <4> QED BY <3>1, <3>3, <4>1 DEF Uniform
      <3> QED BY <2>5, <3>2, <3>3
    <2>6. ReadSoFar' BY <2>1, <2>3, <2>4, <2>5 DEF ReadSoFar
    <2> QED BY <1>a, <2>1, <2>2, <2>6
  <1>8. CASE L!ReadHeader
    <2>1. /\ sysfs /\ call = "header" /\ len' = lengths[value] /\ call' = "again"
          /\ UNCHANGED <<L!rigid, L!device, value, buf, during>>
      BY <1>8 DEF L!ReadHeader
    <2>2. value \in L!Configs BY <1>0, <2>1 DEF ReadSoFar, L!TypeOK, L!Configs
    <2>3. len' \in {2, 3} BY <1>0, <2>1, <2>2 DEF LinuxTypes
    <2>4. L!TypeOK' BY <1>0, <2>1, <2>3 DEF L!TypeOK
    <2>5. ReadSoFar' BY <2>1 DEF ReadSoFar
    <2> QED BY <1>a, <2>1, <2>4, <2>5
  <1>9. CASE L!ReadConfig
    <2>1. /\ sysfs /\ call = "config" /\ buf' = <<<<value, 1>>>> /\ call' = "rest"
          /\ UNCHANGED <<L!rigid, L!device, value, len, during>>
      BY <1>9 DEF L!ReadConfig
    <2>2. L!TypeOK' BY <1>0, <2>1 DEF L!TypeOK
    <2>3. Alike' = Alike /\ Uniform' = Uniform BY <2>1 DEF Alike, Uniform
    <2>4. ReadSoFar' BY <2>1, <2>3 DEF ReadSoFar
    <2> QED BY <1>a, <2>1, <2>2, <2>4
  <1>10. CASE L!ReadRest
    <2>1. /\ sysfs /\ call = "rest" /\ call' = "done"
          /\ UNCHANGED <<L!rigid, L!device, value, len, during>>
      BY <1>10 DEF L!ReadRest
    <2>2. L!TypeOK' BY <1>0, <2>1 DEF L!TypeOK
    <2>3. Alike' = Alike /\ Uniform' = Uniform BY <2>1 DEF Alike, Uniform
    <2>4. \A c : L!Parts(c)' = L!Parts(c) BY <1>b, <2>1
    <2>5. Alike \/ Uniform => buf' = L!Parts(value) BY <1>10, ReadsWhole
    <2>6. ReadSoFar' BY <2>1, <2>3, <2>4, <2>5 DEF ReadSoFar
    <2> QED BY <1>a, <2>1, <2>2, <2>6
  <1>11. CASE L!ReadCached
    <2>1. /\ ~sysfs /\ call = "value" /\ cached # 0 /\ call' = "done"
          /\ len' = lengths[cached] /\ buf' = L!Parts(cached)
          /\ UNCHANGED <<L!rigid, L!device, value, during>>
      BY <1>11 DEF L!ReadCached
    <2>2. cached \in L!Configs BY <1>0, <2>1 DEF L!TypeOK, L!Configs
    <2>3. len' \in {2, 3} BY <1>0, <2>1, <2>2 DEF LinuxTypes
    <2>4. L!TypeOK' BY <1>0, <2>1, <2>3 DEF L!TypeOK
    <2>5. \A c : L!Parts(c)' = L!Parts(c) BY <1>b, <2>1
    <2>6. ReadSoFar' BY <2>1, <2>5 DEF ReadSoFar, CacheKnown
    <2> QED BY <1>a, <2>1, <2>4, <2>6
  <1>12. CASE UNCHANGED L!vars
    <2>1. \A c : L!Parts(c)' = L!Parts(c) BY <1>b, <1>12 DEF L!vars
    <2>2. LinuxTypes' BY <1>0, <1>12 DEF L!vars, LinuxTypes, L!TypeOK
    <2>3. CacheKnown' BY <1>12 DEF L!vars, CacheKnown
    <2>4. Alike' = Alike /\ Uniform' = Uniform BY <1>12 DEF L!vars, Alike, Uniform
    <2>5. ReadSoFar' BY <1>12, <2>1, <2>4 DEF L!vars, ReadSoFar
    <2> QED BY <2>2, <2>3, <2>5
  <1> QED
    BY <1>1, <1>2, <1>3, <1>4, <1>5, <1>6, <1>7, <1>8, <1>9, <1>10, <1>11, <1>12 DEF L!Next

LEMMA LinuxSuffices == LinuxInv => L!TypeOK /\ L!ReturnsActive
  <1> SUFFICES ASSUME LinuxInv PROVE L!TypeOK /\ L!ReturnsActive OBVIOUS
  <1>1. L!TypeOK /\ during \subseteq {0, 1, 2} BY DEF LinuxInv, LinuxTypes, L!TypeOK
  <1>2. ASSUME call = "done", L!Reliable PROVE \E c \in during \ {0} : buf = L!Parts(c)
    <2>1. CASE sysfs
      <3>1. L!Cardinality(during) = 1 => Alike
        <4>1. during \subseteq 0 .. 2 BY <1>1
        <4> DEFINE whole == 0 .. 2
        <4>2. 0 \in Int /\ 2 \in Int OBVIOUS
        <4>4. IsFiniteSet(whole) BY <4>2, FS_Interval, Zenon
        <4> HIDE DEF whole
        <4>3. IsFiniteSet(during) BY <4>1, <4>4, FS_Subset DEF whole
        <4>5. L!Cardinality(during) = Cardinality(during) BY ConfigCardinality
        <4> QED BY <4>3, <4>5, FS_Singleton DEF Alike
      <3>2. Alike \/ Uniform BY <1>2, <2>1, <3>1 DEF L!Reliable, Uniform
      <3> QED BY <1>2, <2>1, <3>2 DEF LinuxInv, ReadSoFar
    <2>2. CASE ~sysfs
      <3>1. active \in during \ {0} /\ buf = L!Parts(active)
        BY <1>2, <2>2 DEF LinuxInv, ReadSoFar, L!Reliable
      <3> QED BY <3>1
    <2> QED BY <2>1, <2>2
  <1> QED BY <1>1, <1>2 DEF L!ReturnsActive
=============================================================================

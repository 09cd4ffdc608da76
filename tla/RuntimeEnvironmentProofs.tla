---------------------- MODULE RuntimeEnvironmentProofs ----------------------
(***************************************************************************)
(* Proofs about one RuntimeEnvironment object: nothing outlives it, its    *)
(* teardown is announced, complete and final, only a renewal can undo      *)
(* Draining, and a ready environment was built after the resets it         *)
(* reports.                                                                *)
(*                                                                         *)
(* The Controller decides on a copy that lags and writes patches that no   *)
(* resource version protects.  What saves it is the order of the versions: *)
(* the copy only moves forward, reconciles do not overlap, and a decision  *)
(* that would be wrong for the stored object is not made on any version    *)
(* the informer has yet to see.  The invariant states that order           *)
(* (Precedes), for the copy, the versions under way and the object.        *)
(*                                                                         *)
(* The second part is about the calls that RuntimeEnvironment takes as one *)
(* step: what a release leaves, what a reset rebuilds, and the fence       *)
(* around what runs, request by request.                                   *)
(***************************************************************************)
EXTENDS RuntimeEnvironment, ProviderResources, SequenceTheorems, WellFoundedInduction, TLAPS

\* The informer's copy and the versions on their way to it.
Known == {cached} \cup {events[i] : i \in 1 .. Len(events)}

Early == {"Pending", "Provisioning"}
Ending == {"Draining", "Released"}

\* What a later version of the object keeps of an earlier one.
Precedes(v, w) ==
  /\ v.nonce <= w.nonce /\ v.renewals <= w.renewals /\ v.observed <= w.observed
  /\ v.release => w.release
  /\ v.deleting => w.deleting
  /\ w.live => v.live
  /\ v.finalizer /\ w.live => w.finalizer
  /\ v.phase # "Pending" => w.phase # "Pending"
  /\ v.phase \in {"Ready", "Failed"} => w.phase \notin Early
  /\ v.observed > 0 /\ v.phase # "Ready" => w.phase # "Ready"
  /\ ~regressed /\ v.phase \in Ending => w.phase \in Ending
  /\ ~regressed /\ v.phase = "Released" => w.phase = "Released"

\* The copy, then the versions under way in their order, the last the object.
Ordered ==
  /\ \A i \in 1 .. Len(events) : Precedes(cached, events[i])
  /\ \A i, j \in 1 .. Len(events) : i < j => Precedes(events[i], events[j])
  /\ \A v \in Known : Precedes(v, obj)
  /\ obj = IF events = <<>> THEN cached ELSE events[Len(events)]
  /\ Len(events) <= load.lag

\* What is known of a reset from the versions alone.
Observing ==
  /\ obj.observed <= cached.nonce
  /\ \A v \in Known : v.op = "Resetting" => v.observed > 0
  /\ obj.observed > 0 => \A v \in Known : v.phase \notin Early
  /\ cached.phase = "Pending" => \A v \in Known : v.phase \notin {"Ready", "Failed"}

Provisions == rec.pc = "provision" \/ (rec.pc = "observed" /\ rec.target = 0)
Resets == rec.pc \in {"adopt", "reset"} \/ (rec.pc = "observed" /\ rec.target > 0)

\* What a running reconcile may rely on.
Reconciling ==
  /\ Provisions \/ Resets => cached.phase # "Pending"
  /\ Provisions => rec.seen.phase = "Provisioning" /\ rec.target = 0 /\ obj.observed = 0
  /\ Resets => rec.target > 0 /\ rec.target <= cached.nonce
  /\ Resets => obj.observed > 0 /\ obj.observed <= rec.target
  /\ Resets => rec.seen.phase \notin Early
  /\ Resets /\ rec.seen.phase # "Ready" => obj.phase # "Ready"
  /\ rec.pc = "observed" /\ rec.ready => res.born >= rec.target

\* A reset is built from what was asked for, and is reported when it is there.
Built ==
  /\ res.state # "absent" => res.born >= res.stamp
  /\ res.born <= obj.nonce
  /\ ReadyIsPostWipe

\* Without a renewal, Draining was decided of the copy and of all that follows.
Expiring ==
  /\ obj.renewals = 0 /\ obj.phase = "Draining" =>
       Expired(cached) /\ rec.pc \in {"idle", "released"}
  /\ OnlyARenewalUndoesDraining

\* Whoever reaches the reap queue is past every decision to build.
Tearing ==
  /\ ~regressed /\ obj.phase = "Released" =>
       cached.phase \in Ending /\ rec.pc \in {"idle", "released"}
  /\ ~regressed /\ reap.state # "none" =>
       /\ cached.deleting \/ cached.phase \in Ending
       /\ rec.pc \in {"idle", "released"}
  /\ \A r \in Reapers : reaper[r] # "idle" => reap.state # "none"
  /\ ~regressed /\ reap.state = "succeeded" => res.state = "absent"
  /\ \A r \in Reapers : ~regressed /\ reaper[r] = "done" => res.state = "absent"

\* Before the finalizer nothing is built; after it nothing is left.
Finalizing ==
  /\ obj.live /\ ~obj.finalizer =>
       res.state = "absent" /\ rec.pc = "idle" /\ reap.state = "none"
  /\ ~obj.live => /\ obj.deleting /\ rec.pc = "idle"
                  /\ cached.deleting \/ \A v \in Known : ~v.finalizer
                  /\ regressed \/ res.state = "absent"

EnvironmentInv ==
  /\ EnvironmentTypeOK
  /\ Ordered /\ Observing /\ Reconciling /\ Built /\ Expiring /\ Tearing /\ Finalizing

-----------------------------------------------------------------------------
LEMMA LoadFacts ==
  ASSUME load \in Workloads
  PROVE /\ load.provider \in {"node", "k8s"} /\ load.content \in {"operations", "other"}
        /\ load.reapers \subseteq Reapers
        /\ load.resets \in Nat /\ load.renewals \in Nat /\ load.faults \in Nat
        /\ load.lag \in Nat /\ load.lag >= 1
<1>1. load \in [provider : {"node", "k8s"}, content : {"operations", "other"},
                reapers : SUBSET Reapers, resets : Nat, renewals : Nat,
                faults : Nat, lag : Nat \ {0}]
  BY EnvironmentAssumption
<1>q. QED
  BY <1>1

LEMMA SameTypes ==
  ASSUME load' = load
  PROVE Object' = Object /\ Reconcile' = Reconcile /\ Resources' = Resources
BY DEF Object, Reconcile, Resources

\* A version as its fields.
LEMMA ObjectFields ==
  ASSUME load \in Workloads, NEW o \in Object
  PROVE /\ o.live \in BOOLEAN /\ o.deleting \in BOOLEAN /\ o.finalizer \in BOOLEAN
        /\ o.release \in BOOLEAN
        /\ o.nonce \in Nat /\ o.renewals \in Nat /\ o.observed \in Nat /\ o.annotated \in Nat
        /\ o.nonce <= load.resets /\ o.renewals <= load.renewals
        /\ o.observed <= load.resets /\ o.annotated <= load.resets
        /\ o.phase \in Phases /\ o.op \in Operations
<1>1. load.resets \in Nat /\ load.renewals \in Nat
  BY LoadFacts
<1>2. /\ o.live \in BOOLEAN /\ o.deleting \in BOOLEAN /\ o.finalizer \in BOOLEAN
      /\ o.release \in BOOLEAN /\ o.phase \in Phases /\ o.op \in Operations
  BY DEF Object
<1>3. /\ o.nonce \in 0 .. load.resets /\ o.renewals \in 0 .. load.renewals
      /\ o.observed \in 0 .. load.resets /\ o.annotated \in 0 .. load.resets
  BY DEF Object
<1>q. QED
  BY <1>1, <1>2, <1>3

LEMMA PrecedesItself ==
  ASSUME load \in Workloads, NEW o \in Object PROVE Precedes(o, o)
<1>1. o.nonce \in Nat /\ o.renewals \in Nat /\ o.observed \in Nat
  BY ObjectFields
<1>q. QED
  BY <1>1 DEF Precedes, Early

LEMMA KnownTyped ==
  ASSUME EnvironmentInv
  PROVE /\ cached \in Known /\ obj \in Known
        /\ \A v \in Known : v \in Object /\ Precedes(v, obj)
<1>1. cached \in Object /\ events \in Seq(Object) /\ obj \in Object
  BY DEF EnvironmentInv, EnvironmentTypeOK
<1>2. Len(events) \in Nat /\ \A i \in 1 .. Len(events) : events[i] \in Object
  BY <1>1, ElementOfSeq, LenProperties
<1>3. events # <<>> => Len(events) \in 1 .. Len(events)
  BY <1>1, <1>2, EmptySeq
<1>4. obj \in Known
  BY <1>3 DEF Known, EnvironmentInv, Ordered
<1>q. QED
  BY <1>1, <1>2, <1>4 DEF Known, EnvironmentInv, Ordered

\* A write is one more version, the last; a full queue merges it with the last.
LEMMA WrittenVersions ==
  ASSUME EnvironmentInv, load' = load, cached' = cached, obj' \in Object, Watched
  PROVE /\ events' \in Seq(Object) /\ Len(events') <= load.lag
        /\ obj' = IF events' = <<>> THEN cached' ELSE events'[Len(events')]
        /\ \A v \in Known' : v \in Known \/ v = obj'
        /\ \A i \in 1 .. Len(events') : events'[i] = obj' \/ (i \in 1 .. Len(events) /\ events'[i] = events[i])
        /\ \A i \in 1 .. Len(events') : i < Len(events') =>
              i \in 1 .. Len(events) /\ events'[i] = events[i]
<1>1. /\ events \in Seq(Object) /\ cached \in Object /\ load.lag \in Nat /\ load.lag >= 1
      /\ Len(events) \in Nat /\ Len(events) <= load.lag
      /\ obj = IF events = <<>> THEN cached ELSE events[Len(events)]
  BY LoadFacts, LenProperties DEF EnvironmentInv, EnvironmentTypeOK, Ordered
<1>2. CASE obj' = obj
  <2>1. events' = events
    BY <1>2 DEF Watched
  <2>2. Len(events) > 0 => Len(events) \in 1 .. Len(events)
    BY <1>1
  <2>q. QED
    BY <1>1, <1>2, <2>1, <2>2 DEF Known
<1>3. CASE obj' # obj /\ Len(events) < load.lag
  <2>1. events' = Append(events, obj')
    BY <1>3 DEF Watched
  <2>2. /\ events' \in Seq(Object) /\ Len(events') = Len(events) + 1
        /\ events'[Len(events) + 1] = obj'
        /\ \A i \in 1 .. Len(events) : events'[i] = events[i]
    BY <1>1, <2>1, AppendProperties
  <2>3. events' # <<>>
    BY <1>1, <2>2, EmptySeq
  <2>4. \A i \in 1 .. Len(events') : i \in 1 .. Len(events) \/ i = Len(events) + 1
    BY <1>1, <2>2
  <2>5. \A i \in 1 .. Len(events') : i < Len(events') => i \in 1 .. Len(events)
    BY <1>1, <2>2
  <2>q. QED
    BY <1>1, <1>3, <2>2, <2>3, <2>4, <2>5 DEF Known
<1>4. CASE obj' # obj /\ Len(events) = load.lag
  <2>1. events' = [events EXCEPT ![Len(events)] = obj']
    BY <1>4 DEF Watched
  <2>2. Len(events) \in 1 .. Len(events)
    BY <1>1, <1>4
  <2>3. /\ events' \in Seq(Object) /\ Len(events') = Len(events)
        /\ events'[Len(events)] = obj'
        /\ \A i \in 1 .. Len(events) : i # Len(events) => events'[i] = events[i]
    BY <1>1, <2>1, <2>2, ExceptSeq
  <2>4. events' # <<>>
    BY <1>1, <1>4, <2>3, EmptySeq
  <2>5. \A i \in 1 .. Len(events') : i # Len(events) => events'[i] = events[i]
    BY <2>3
  <2>6. \A i \in 1 .. Len(events') : i < Len(events') => i \in 1 .. Len(events) /\ events'[i] = events[i]
    BY <1>1, <2>3
  <2>q. QED
    BY <1>1, <2>3, <2>4, <2>5, <2>6 DEF Known
<1>q. QED
  BY <1>1, <1>2, <1>3, <1>4

\* A write keeps the order if every version so far precedes what it writes.
LEMMA WriteOrders ==
  ASSUME EnvironmentInv, load' = load, cached' = cached, obj' \in Object, Watched,
         regressed => regressed', \A v \in Known : Precedes(v, obj)'
  PROVE Ordered' /\ events' \in Seq(Object) /\ \A v \in Known' : v \in Known \/ v = obj'
<1>1. /\ events' \in Seq(Object) /\ Len(events') <= load'.lag
      /\ obj' = IF events' = <<>> THEN cached' ELSE events'[Len(events')]
      /\ \A v \in Known' : v \in Known \/ v = obj'
      /\ \A i \in 1 .. Len(events') : events'[i] = obj' \/ (i \in 1 .. Len(events) /\ events'[i] = events[i])
      /\ \A i \in 1 .. Len(events') : i < Len(events') =>
              i \in 1 .. Len(events) /\ events'[i] = events[i]
  BY WrittenVersions
<1>2. ASSUME NEW v, NEW w, Precedes(v, w) PROVE Precedes(v, w)'
  BY <1>2 DEF Precedes
<1>3. \A i \in 1 .. Len(events) : events[i] \in Known
  BY DEF Known
<1>4. ASSUME NEW i \in 1 .. Len(events') PROVE Precedes(cached, events[i])'
  <2>1. CASE events'[i] = obj'
    <3>1. cached \in Known
      BY DEF Known
    <3>2. PICK c : c = cached
      OBVIOUS
    <3>3. Precedes(c, obj)'
      BY <3>1, <3>2
    <3>q. QED
      BY <2>1, <3>2, <3>3
  <2>2. CASE i \in 1 .. Len(events) /\ events'[i] = events[i]
    <3>1. PICK c, e : c = cached /\ e = events[i]
      OBVIOUS
    <3>2. Precedes(c, e)
      BY <2>2, <3>1 DEF EnvironmentInv, Ordered
    <3>3. Precedes(c, e)'
      BY <1>2, <3>2
    <3>q. QED
      BY <2>2, <3>1, <3>3
  <2>q. QED
    BY <1>1, <2>1, <2>2
<1>5. ASSUME NEW i \in 1 .. Len(events'), NEW j \in 1 .. Len(events'), i < j
      PROVE Precedes(events[i], events[j])'
  <2>1. i < Len(events')
    BY <1>1, <1>5, LenProperties
  <2>2. i \in 1 .. Len(events) /\ events'[i] = events[i]
    BY <1>1, <2>1
  <2>3. PICK d : d = events[i] /\ d \in Known
    BY <1>3, <2>2
  <2>4. CASE events'[j] = obj'
    <3>1. Precedes(d, obj)'
      BY <2>3
    <3>q. QED
      BY <2>2, <2>3, <2>4, <3>1
  <2>5. CASE j \in 1 .. Len(events) /\ events'[j] = events[j]
    <3>1. PICK e : e = events[j]
      OBVIOUS
    <3>2. Precedes(d, e)
      BY <1>5, <2>2, <2>3, <2>5, <3>1 DEF EnvironmentInv, Ordered
    <3>3. Precedes(d, e)'
      BY <1>2, <3>2
    <3>q. QED
      BY <2>2, <2>3, <2>5, <3>1, <3>3
  <2>q. QED
    BY <1>1, <2>4, <2>5
<1>6. ASSUME NEW v \in Known' PROVE Precedes(v, obj)'
  <2>1. CASE v \in Known
    BY <2>1
  <2>2. CASE v = obj'
    <3>1. v \in Object /\ load \in Workloads
      BY <2>2 DEF EnvironmentInv, EnvironmentTypeOK
    <3>2. Precedes(v, v)
      BY <3>1, PrecedesItself
    <3>3. Precedes(v, v)'
      BY <1>2, <3>2
    <3>q. QED
      BY <2>2, <3>3
  <2>q. QED
    BY <1>1, <2>1, <2>2
<1>q. QED
  BY <1>1, <1>4, <1>5, <1>6 DEF Ordered
-----------------------------------------------------------------------------
\* What the invariant says of the versions, by name.
LEMMA VersionFacts ==
  ASSUME EnvironmentInv
  PROVE /\ load \in Workloads /\ obj \in Object /\ cached \in Object /\ rec \in Reconcile
        /\ res \in Resources /\ reap \in Reap /\ regressed \in BOOLEAN
        /\ cached \in Known /\ obj \in Known
        /\ \A v \in Known : v \in Object /\ Precedes(v, obj)
        /\ Precedes(cached, obj) /\ Precedes(obj, obj)
<1>1. /\ load \in Workloads /\ obj \in Object /\ cached \in Object /\ rec \in Reconcile
      /\ res \in Resources /\ reap \in Reap /\ regressed \in BOOLEAN
  BY DEF EnvironmentInv, EnvironmentTypeOK
<1>2. /\ cached \in Known /\ obj \in Known
      /\ \A v \in Known : v \in Object /\ Precedes(v, obj)
  BY KnownTyped
<1>q. QED
  BY <1>1, <1>2

\* A write that is not one of the status keeps what is known of the versions.
LEMMA MetaWrite ==
  ASSUME EnvironmentInv, load' = load, cached' = cached, regressed' = regressed,
         obj' \in Object, Watched,
         obj'.phase = obj.phase, obj'.op = obj.op, obj'.observed = obj.observed,
         obj.nonce <= obj'.nonce, obj.renewals <= obj'.renewals,
         obj.release => obj'.release, obj.deleting => obj'.deleting,
         obj'.live => obj.live, obj.finalizer /\ obj'.live => obj'.finalizer
  PROVE /\ Ordered' /\ Observing' /\ events' \in Seq(Object)
        /\ \A v \in Known' : v \in Known \/ v = obj'
<1>1. /\ load \in Workloads /\ obj \in Object /\ cached \in Object /\ cached \in Known
      /\ obj \in Known
      /\ \A v \in Known : v \in Object /\ Precedes(v, obj)
  BY VersionFacts
<1>2. ASSUME NEW v \in Known PROVE Precedes(v, obj)'
  <2>1. PICK o : o = obj'
    OBVIOUS
  <2>2. o \in Object /\ v \in Object /\ Precedes(v, obj)
    BY <1>1, <2>1
  <2>3. /\ v.nonce \in Nat /\ v.renewals \in Nat /\ v.observed \in Nat
        /\ o.nonce \in Nat /\ o.renewals \in Nat
        /\ obj.nonce \in Nat /\ obj.renewals \in Nat
    BY <1>1, <2>2, ObjectFields
  <2>4. v.nonce <= o.nonce /\ v.renewals <= o.renewals
    BY <2>1, <2>2, <2>3 DEF Precedes
  <2>q. QED
    BY <2>1, <2>2, <2>4 DEF Precedes
<1>3. Ordered' /\ events' \in Seq(Object) /\ \A v \in Known' : v \in Known \/ v = obj'
  BY <1>2, WriteOrders
<1>4. Observing'
  BY <1>1, <1>3 DEF EnvironmentInv, Observing
<1>q. QED
  BY <1>3, <1>4

\* A status patch takes effect on a live object, if the phase it was computed on allows it.
Accepted(seen, phase) == obj.live /\ CanTransition(seen.phase, phase)

LEMMA Updated ==
  ASSUME EnvironmentInv, NEW seen \in Object, NEW ph \in Phases, NEW op \in Operations,
         NEW ob \in 0 .. load.resets, UpdateStatus(seen, ph, op, ob)
  PROVE /\ obj' \in Object
        /\ obj'.live = obj.live /\ obj'.deleting = obj.deleting
        /\ obj'.finalizer = obj.finalizer /\ obj'.release = obj.release
        /\ obj'.nonce = obj.nonce /\ obj'.renewals = obj.renewals
        /\ ~Accepted(seen, ph) => obj' = obj
        /\ Accepted(seen, ph) =>
             /\ obj'.phase = IF ph = seen.phase THEN obj.phase ELSE ph
             /\ obj'.op = IF op = seen.op THEN obj.op ELSE op
             /\ obj'.observed = IF ob = seen.observed THEN obj.observed ELSE ob
        /\ regressed' \in BOOLEAN
        /\ regressed' <=> regressed \/ (obj.phase = "Draining" /\ obj'.phase \notin Ending)
<1>1. obj \in Object /\ regressed \in BOOLEAN
  BY VersionFacts
<1>2. obj' = IF Accepted(seen, ph) THEN Merge(seen, ph, op, ob) ELSE obj
  BY DEF UpdateStatus, Accepted
<1>3. /\ regressed' \in BOOLEAN
      /\ regressed' <=> regressed \/ (obj.phase = "Draining" /\ obj'.phase \notin Ending)
  BY <1>1 DEF UpdateStatus, Ending
<1>4. PICK q : q = Merge(seen, ph, op, ob)
  OBVIOUS
<1>5. /\ q \in Object
      /\ q.live = obj.live /\ q.deleting = obj.deleting
      /\ q.finalizer = obj.finalizer /\ q.release = obj.release
      /\ q.nonce = obj.nonce /\ q.renewals = obj.renewals
      /\ q.phase = IF ph = seen.phase THEN obj.phase ELSE ph
      /\ q.op = IF op = seen.op THEN obj.op ELSE op
      /\ q.observed = IF ob = seen.observed THEN obj.observed ELSE ob
  BY <1>1, <1>4 DEF Merge, Object
<1>q. QED
  BY <1>1, <1>2, <1>3, <1>4, <1>5
\* The phase a patch may newly store, given the copy and the stored object.
MayStore(ph) ==
  /\ ph # "Pending"
  /\ ph = "Provisioning" => cached.phase = "Pending"
  /\ ph \in {"Ready", "Failed"} => cached.phase # "Pending"
  /\ ph = "Ready" => obj.observed = 0
  /\ ~regressed /\ obj.phase = "Released" => ph = "Released"
  /\ obj.phase = "Draining" /\ ph \notin Ending => obj.renewals > 0

\* A status patch keeps the order of the versions, though none protects it.
LEMMA StatusWrite ==
  ASSUME EnvironmentInv, NEW seen \in Object, NEW ph \in Phases, NEW op \in Operations,
         NEW ob \in 0 .. load.resets, UpdateStatus(seen, ph, op, ob),
         load' = load, cached' = cached, Watched,
         Accepted(seen, ph) /\ ph # seen.phase => MayStore(ph),
         \/ ob = seen.observed
         \/ /\ ph = seen.phase /\ cached.phase = "Ready"
            /\ ob = cached.nonce /\ obj.observed <= ob,
         obj'.op = "Resetting" /\ obj'.op # obj.op => obj'.observed > 0
  PROVE /\ Ordered' /\ Observing' /\ events' \in Seq(Object)
        /\ \A v \in Known' : v \in Known \/ v = obj'
        /\ OnlyARenewalUndoesDraining'
<1>1. /\ load \in Workloads /\ obj \in Object /\ cached \in Object /\ cached \in Known
      /\ obj \in Known /\ regressed \in BOOLEAN
      /\ \A v \in Known : v \in Object /\ Precedes(v, obj)
  BY VersionFacts
<1>2. /\ obj' \in Object
      /\ obj'.live = obj.live /\ obj'.deleting = obj.deleting
      /\ obj'.finalizer = obj.finalizer /\ obj'.release = obj.release
      /\ obj'.nonce = obj.nonce /\ obj'.renewals = obj.renewals
      /\ ~Accepted(seen, ph) => obj' = obj
      /\ Accepted(seen, ph) =>
             /\ obj'.phase = IF ph = seen.phase THEN obj.phase ELSE ph
             /\ obj'.op = IF op = seen.op THEN obj.op ELSE op
             /\ obj'.observed = IF ob = seen.observed THEN obj.observed ELSE ob
      /\ regressed' \in BOOLEAN
      /\ regressed' <=> regressed \/ (obj.phase = "Draining" /\ obj'.phase \notin Ending)
  BY Updated
<1>3. /\ obj.observed \in Nat /\ cached.nonce \in Nat /\ cached.observed \in Nat
      /\ obj'.observed \in Nat /\ obj.renewals \in Nat
  BY <1>1, <1>2, ObjectFields
<1>4. /\ obj'.phase = obj.phase \/ (obj'.phase = ph /\ MayStore(ph))
      /\ \/ obj'.observed = obj.observed
         \/ /\ cached.phase = "Ready" /\ obj'.phase = obj.phase
            /\ obj'.observed = cached.nonce /\ obj.observed <= obj'.observed
  BY <1>2
<1>5. ASSUME NEW v \in Known PROVE Precedes(v, obj)'
  <2>1. PICK o : o = obj'
    OBVIOUS
  <2>2. v \in Object /\ Precedes(v, obj)
    BY <1>1
  <2>3. v.observed \in Nat
    BY <1>1, <2>2, ObjectFields
  <2>4. v.observed <= o.observed
    BY <1>3, <1>4, <2>1, <2>2, <2>3 DEF Precedes
  <2>5. v.phase # "Pending" => o.phase # "Pending"
    BY <1>4, <2>1, <2>2 DEF Precedes, MayStore
  <2>6. v.phase \in {"Ready", "Failed"} => o.phase \notin Early
    BY <1>4, <2>1, <2>2 DEF Precedes, MayStore, EnvironmentInv, Observing, Early
  <2>7. v.observed > 0 /\ v.phase # "Ready" => o.phase # "Ready"
    <3>1. SUFFICES ASSUME v.observed > 0, v.phase # "Ready" PROVE o.phase # "Ready"
      OBVIOUS
    <3>2. obj.observed > 0 /\ obj.phase # "Ready"
      BY <1>3, <2>2, <2>3, <3>1 DEF Precedes
    <3>q. QED
      BY <1>3, <1>4, <2>1, <3>2 DEF MayStore
  <2>8. ~regressed' /\ v.phase \in Ending => o.phase \in Ending
    BY <1>2, <1>4, <2>1, <2>2 DEF Precedes, MayStore, Ending
  <2>9. ~regressed' /\ v.phase = "Released" => o.phase = "Released"
    BY <1>2, <1>4, <2>1, <2>2 DEF Precedes, MayStore
  <2>q. QED
    BY <1>2, <2>1, <2>2, <2>4, <2>5, <2>6, <2>7, <2>8, <2>9 DEF Precedes
<1>6. Ordered' /\ events' \in Seq(Object) /\ \A v \in Known' : v \in Known \/ v = obj'
  BY <1>2, <1>5, WriteOrders
<1>7. Observing'
  <2>1. obj'.observed <= cached'.nonce
    BY <1>3, <1>4 DEF EnvironmentInv, Observing
  <2>2. ASSUME NEW v \in Known', v.op = "Resetting" PROVE v.observed > 0
    <3>1. CASE v \in Known
      BY <2>2, <3>1 DEF EnvironmentInv, Observing
    <3>2. CASE v = obj' /\ obj'.op # obj.op
      BY <2>2, <3>2
    <3>3. CASE v = obj' /\ obj'.op = obj.op
      <4>1. obj.observed > 0
        BY <1>1, <2>2, <3>3 DEF EnvironmentInv, Observing
      <4>q. QED
        BY <1>3, <1>4, <3>3, <4>1
    <3>q. QED
      BY <1>6, <3>1, <3>2, <3>3
  <2>3. ASSUME obj'.observed > 0, NEW v \in Known' PROVE v.phase \notin Early
    <3>1. \A w \in Known : w.phase \notin Early
      <4>1. CASE obj.observed > 0
        BY <4>1 DEF EnvironmentInv, Observing
      <4>2. CASE obj.observed = 0
        <5>1. cached.phase = "Ready"
          BY <1>4, <2>3, <4>2
        <5>2. \A i \in 1 .. Len(events) : events[i].phase \notin Early
          BY <5>1 DEF EnvironmentInv, Ordered, Precedes
        <5>q. QED
          BY <5>1, <5>2 DEF Known, Early
      <4>q. QED
        BY <1>3, <4>1, <4>2
    <3>2. obj'.phase \notin Early
      BY <1>1, <1>4, <3>1 DEF MayStore, Early
    <3>q. QED
      BY <1>6, <3>1, <3>2
  <2>4. ASSUME cached'.phase = "Pending", NEW v \in Known'
        PROVE v.phase \notin {"Ready", "Failed"}
    <3>1. \A w \in Known : w.phase \notin {"Ready", "Failed"}
      BY <2>4 DEF EnvironmentInv, Observing
    <3>2. obj'.phase \notin {"Ready", "Failed"}
      BY <1>1, <1>4, <2>4, <3>1 DEF MayStore
    <3>q. QED
      BY <1>6, <3>1, <3>2
  <2>q. QED
    BY <2>1, <2>2, <2>3, <2>4 DEF Observing
<1>8. OnlyARenewalUndoesDraining'
  <2>1. regressed => obj.renewals > 0
    BY DEF EnvironmentInv, Expiring, OnlyARenewalUndoesDraining
  <2>2. obj.phase = "Draining" /\ obj'.phase \notin Ending => obj.renewals > 0
    BY <1>4 DEF MayStore, Ending
  <2>q. QED
    BY <1>2, <2>1, <2>2 DEF OnlyARenewalUndoesDraining
<1>q. QED
  BY <1>6, <1>7, <1>8
-----------------------------------------------------------------------------
\* A step of the Server, of the Controller, or of what happens to them.
LEMMA TypedStep ==
  ASSUME EnvironmentInv, load' = load, obj' \in Object, cached' \in Object,
         events' \in Seq(Object), rec' \in Reconcile, res' \in Resources,
         reap' = reap, reaper' = reaper, UNCHANGED clock,
         regressed' \in BOOLEAN, Sound \/ Fault
  PROVE EnvironmentTypeOK'
<1>1. EnvironmentTypeOK /\ Object' = Object /\ Reconcile' = Reconcile /\ Resources' = Resources
  BY SameTypes DEF EnvironmentInv
<1>2. faults \in 0 .. load.faults /\ load.faults \in Nat
  BY <1>1, LoadFacts DEF EnvironmentTypeOK
<1>3. faults' \in 0 .. load.faults
  BY <1>2 DEF Sound, Fault
<1>4. Reap' = Reap
  BY DEF Reap
<1>q. QED
  BY <1>1, <1>3, <1>4 DEF EnvironmentTypeOK, clock

\* The Server only adds requests; what it drops had no finalizer.
LEMMA ServerWrite ==
  ASSUME EnvironmentInv, obj.live, ServerKeeps, obj' \in Object,
         obj'.phase = obj.phase, obj'.op = obj.op, obj'.observed = obj.observed,
         obj.nonce <= obj'.nonce, obj.renewals <= obj'.renewals,
         obj.release => obj'.release, obj.deleting => obj'.deleting,
         obj'.finalizer <=> obj.finalizer,
         ~obj'.live => obj'.deleting /\ ~obj.finalizer
  PROVE EnvironmentInv'
<1>1. /\ load' = load /\ cached' = cached /\ rec' = rec /\ res' = res /\ reap' = reap
      /\ reaper' = reaper /\ UNCHANGED clock /\ regressed' = regressed /\ Sound /\ Watched
  BY DEF ServerKeeps, Sound
<1>2. /\ load \in Workloads /\ obj \in Object /\ cached \in Object /\ rec \in Reconcile
      /\ res \in Resources /\ regressed \in BOOLEAN
      /\ \A v \in Known : Precedes(v, obj)
  BY VersionFacts
<1>3. /\ Ordered' /\ Observing' /\ events' \in Seq(Object)
      /\ \A v \in Known' : v \in Known \/ v = obj'
  BY <1>1, MetaWrite
<1>4. EnvironmentTypeOK'
  BY <1>1, <1>2, <1>3, TypedStep
<1>5. Reconciling'
  BY <1>1 DEF EnvironmentInv, Reconciling, Provisions, Resets
<1>6. Built'
  <2>1. res.born \in Nat /\ obj.nonce \in Nat /\ obj'.nonce \in Nat
    BY <1>2, LoadFacts, ObjectFields DEF Resources
  <2>2. res'.born <= obj'.nonce
    BY <1>1, <2>1 DEF EnvironmentInv, Built
  <2>3. ReadyIsPostWipe'
    BY <1>1 DEF EnvironmentInv, Built, ReadyIsPostWipe, InUse
  <2>q. QED
    BY <1>1, <2>2, <2>3 DEF EnvironmentInv, Built
<1>7. Expiring'
  <2>1. obj.renewals \in Nat /\ obj'.renewals \in Nat
    BY <1>2, ObjectFields
  <2>2. obj'.renewals = 0 => obj.renewals = 0
    BY <2>1
  <2>3. OnlyARenewalUndoesDraining'
    BY <1>1, <2>1 DEF EnvironmentInv, Expiring, OnlyARenewalUndoesDraining
  <2>4. Expired(cached)' <=> Expired(cached)
    BY <1>1 DEF Expired, clock
  <2>q. QED
    BY <1>1, <2>2, <2>3, <2>4 DEF EnvironmentInv, Expiring
<1>8. Tearing'
  BY <1>1 DEF EnvironmentInv, Tearing
<1>9. Finalizing'
  <2>1. obj'.live /\ ~obj'.finalizer =>
          res'.state = "absent" /\ rec'.pc = "idle" /\ reap'.state = "none"
    BY <1>1 DEF EnvironmentInv, Finalizing
  <2>2. ASSUME ~obj'.live
        PROVE /\ obj'.deleting /\ rec'.pc = "idle" /\ res'.state = "absent"
              /\ \A v \in Known' : ~v.finalizer
    <3>1. res.state = "absent" /\ rec.pc = "idle"
      BY <2>2 DEF EnvironmentInv, Finalizing
    <3>2. \A v \in Known : ~v.finalizer
      BY <1>2, <2>2 DEF Precedes
    <3>q. QED
      BY <1>1, <1>3, <2>2, <3>1, <3>2
  <2>q. QED
    BY <2>1, <2>2 DEF Finalizing
<1>q. QED
  BY <1>3, <1>4, <1>5, <1>6, <1>7, <1>8, <1>9 DEF EnvironmentInv

LEMMA ServerStep ==
  ASSUME EnvironmentInv,
         \/ RenewActivity \/ RequestReset \/ ReleaseAdminEnvironment
         \/ RequestDeletion \/ DeleteEnvironmentProjection
  PROVE EnvironmentInv'
<1>1. load \in Workloads /\ obj \in Object
  BY VersionFacts
<1>2. /\ obj.nonce \in Nat /\ obj.renewals \in Nat /\ load.resets \in Nat /\ load.renewals \in Nat
      /\ obj.live \in BOOLEAN /\ obj.finalizer \in BOOLEAN
  BY <1>1, LoadFacts, ObjectFields
<1>3. CASE RenewActivity
  <2>1. PICK q : q = [obj EXCEPT !.renewals = @ + 1]
    OBVIOUS
  <2>2. obj' = q /\ obj.live /\ obj.renewals < load.renewals /\ ServerKeeps
    BY <1>3, <2>1 DEF RenewActivity
  <2>3. obj.renewals + 1 \in 0 .. load.renewals
    BY <1>2, <2>2
  <2>4. /\ q \in Object /\ q.phase = obj.phase /\ q.op = obj.op /\ q.observed = obj.observed
        /\ q.nonce = obj.nonce /\ q.renewals = obj.renewals + 1 /\ q.release = obj.release
        /\ q.deleting = obj.deleting /\ q.finalizer = obj.finalizer /\ q.live = obj.live
    BY <1>1, <2>1, <2>3 DEF Object
  <2>q. QED
    BY <1>2, <2>2, <2>4, ServerWrite
<1>4. CASE RequestReset
  <2>1. PICK q : q = [obj EXCEPT !.nonce = @ + 1]
    OBVIOUS
  <2>2. obj' = q /\ obj.live /\ obj.nonce < load.resets /\ ServerKeeps
    BY <1>4, <2>1 DEF RequestReset
  <2>3. obj.nonce + 1 \in 0 .. load.resets
    BY <1>2, <2>2
  <2>4. /\ q \in Object /\ q.phase = obj.phase /\ q.op = obj.op /\ q.observed = obj.observed
        /\ q.nonce = obj.nonce + 1 /\ q.renewals = obj.renewals /\ q.release = obj.release
        /\ q.deleting = obj.deleting /\ q.finalizer = obj.finalizer /\ q.live = obj.live
    BY <1>1, <2>1, <2>3 DEF Object
  <2>q. QED
    BY <1>2, <2>2, <2>4, ServerWrite
<1>5. CASE ReleaseAdminEnvironment
  <2>1. PICK q : q = [obj EXCEPT !.release = TRUE]
    OBVIOUS
  <2>2. obj' = q /\ obj.live /\ ServerKeeps
    BY <1>5, <2>1 DEF ReleaseAdminEnvironment
  <2>4. /\ q \in Object /\ q.phase = obj.phase /\ q.op = obj.op /\ q.observed = obj.observed
        /\ q.nonce = obj.nonce /\ q.renewals = obj.renewals /\ q.release
        /\ q.deleting = obj.deleting /\ q.finalizer = obj.finalizer /\ q.live = obj.live
    BY <1>1, <2>1 DEF Object
  <2>q. QED
    BY <1>2, <2>2, <2>4, ServerWrite
<1>6. ASSUME obj.live, obj' = Deleted(obj), ServerKeeps PROVE EnvironmentInv'
  <2>1. PICK q : q = Deleted(obj)
    OBVIOUS
  <2>2. /\ q \in Object /\ q.phase = obj.phase /\ q.op = obj.op /\ q.observed = obj.observed
        /\ q.nonce = obj.nonce /\ q.renewals = obj.renewals /\ q.release = obj.release
        /\ q.deleting /\ q.finalizer = obj.finalizer /\ q.live = obj.finalizer
    BY <1>1, <1>2, <2>1 DEF Deleted, Object
  <2>q. QED
    BY <1>2, <1>6, <2>1, <2>2, ServerWrite
<1>7. CASE RequestDeletion
  BY <1>6, <1>7 DEF RequestDeletion
<1>8. CASE DeleteEnvironmentProjection
  BY <1>6, <1>8 DEF DeleteEnvironmentProjection
<1>q. QED
  BY <1>3, <1>4, <1>5, <1>7, <1>8
-----------------------------------------------------------------------------
LEMMA NewObjectTyped ==
  ASSUME load \in Workloads PROVE NewObject \in Object /\ Resting \in Reconcile /\ Resting.pc = "idle"
<1>1. load.resets \in Nat /\ load.renewals \in Nat
  BY LoadFacts
<1>2. 0 \in 0 .. load.resets /\ 0 \in 0 .. load.renewals
  BY <1>1
<1>3. NewObject \in Object
  BY <1>2 DEF NewObject, Object, Phases, Operations
<1>q. QED
  BY <1>2, <1>3 DEF Resting, Reconcile

LEMMA Works ==
  ASSUME load \in Workloads, NEW e \in Object, NEW n \in 0 .. load.resets,
         NEW pc \in {"provision", "adopt", "reset", "released"}, WorksOn(e, pc, n)
  PROVE /\ rec' \in Reconcile /\ rec'.pc = pc /\ rec'.target = n /\ rec'.ready = FALSE
        /\ rec'.seen.phase = e.phase
<1>1. PICK s : s = StatusOf(e)
  OBVIOUS
<1>2. NewObject \in Object
  BY NewObjectTyped
<1>3. s \in Object /\ s.phase = e.phase
  BY <1>1, <1>2 DEF StatusOf, Object
<1>4. PICK t : t = IF pc = "adopt" THEN e ELSE s
  OBVIOUS
<1>5. rec' = [pc |-> pc, seen |-> t, target |-> n, ready |-> FALSE]
  BY <1>1, <1>4 DEF WorksOn
<1>6. t \in Object /\ t.phase = e.phase
  BY <1>3, <1>4
<1>q. QED
  BY <1>5, <1>6 DEF Reconcile

\* A reconcile that starts for an object not being deleted finds it alive.
LEMMA Begins ==
  ASSUME EnvironmentInv, Starting, cached.finalizer, ~cached.deleting
  PROVE /\ obj.live /\ obj.finalizer /\ rec.pc = "idle"
        /\ ~regressed /\ cached.phase \notin Ending =>
             obj.phase # "Released" /\ reap.state = "none"
        /\ ~Expired(cached) /\ obj.phase = "Draining" => obj.renewals > 0
<1>1. cached \in Known /\ Precedes(cached, obj) /\ obj \in Object /\ load \in Workloads
  BY VersionFacts
<1>2. obj.live
  BY <1>1 DEF EnvironmentInv, Finalizing
<1>3. obj.finalizer
  BY <1>1, <1>2 DEF Precedes
<1>4. obj.renewals \in Nat
  BY <1>1, ObjectFields
<1>5. ~Expired(cached) /\ obj.phase = "Draining" => obj.renewals # 0
  BY DEF EnvironmentInv, Expiring
<1>6. ~regressed /\ cached.phase \notin Ending => obj.phase # "Released" /\ reap.state = "none"
  BY DEF EnvironmentInv, Tearing
<1>q. QED
  BY <1>2, <1>3, <1>4, <1>5, <1>6 DEF Starting

\* While one works, the object is alive and its teardown has not begun.
LEMMA Working ==
  ASSUME EnvironmentInv, rec.pc # "idle"
  PROVE /\ obj.live /\ obj.finalizer
        /\ rec.pc # "released" /\ ~regressed => obj.phase # "Released" /\ reap.state = "none"
        /\ rec.pc # "released" /\ obj.phase = "Draining" => obj.renewals > 0
<1>1. obj \in Object /\ load \in Workloads
  BY VersionFacts
<1>2. obj.renewals \in Nat
  BY <1>1, ObjectFields
<1>3. obj.live /\ obj.finalizer
  BY DEF EnvironmentInv, Finalizing
<1>4. rec.pc # "released" /\ obj.phase = "Draining" => obj.renewals # 0
  BY DEF EnvironmentInv, Expiring
<1>5. rec.pc # "released" /\ ~regressed => obj.phase # "Released" /\ reap.state = "none"
  BY DEF EnvironmentInv, Tearing
<1>q. QED
  BY <1>2, <1>3, <1>4, <1>5

\* What is left to show of a step that finds, and leaves, the object with its finalizer.
LEMMA Aftermath ==
  ASSUME EnvironmentInv, EnvironmentTypeOK', Ordered', Observing', Reconciling', Built',
         OnlyARenewalUndoesDraining',
         load' = load, cached' = cached, reap' = reap, reaper' = reaper, UNCHANGED clock,
         regressed => regressed',
         obj'.live, obj'.finalizer, obj'.renewals = obj.renewals,
         obj'.phase = "Draining" => obj.phase = "Draining" \/ Expired(cached),
         obj'.phase = "Released" => obj.phase = "Released" \/ cached.phase \in Ending,
         ~regressed /\ reap.state # "none" /\ res.state = "absent" => res'.state = "absent",
         \/ rec'.pc \in {"idle", "released"}
         \/ /\ obj'.phase = "Draining" => obj.renewals > 0
            /\ ~regressed => obj'.phase # "Released" /\ reap.state = "none"
  PROVE EnvironmentInv'
<1>1. obj \in Object /\ load \in Workloads
  BY VersionFacts
<1>2. obj.renewals \in Nat
  BY <1>1, ObjectFields
<1>3. Expiring'
  <2>1. Expired(cached)' <=> Expired(cached)
    BY DEF Expired, clock
  <2>2. obj'.renewals = 0 /\ obj'.phase = "Draining" => Expired(cached)
    BY DEF EnvironmentInv, Expiring
  <2>3. obj'.renewals = 0 /\ obj'.phase = "Draining" => rec'.pc \in {"idle", "released"}
    BY <1>2
  <2>q. QED
    BY <2>1, <2>2, <2>3 DEF Expiring
<1>4. Tearing'
  <2>1. ~regressed' /\ obj'.phase = "Released" =>
          cached'.phase \in Ending /\ rec'.pc \in {"idle", "released"}
    BY DEF EnvironmentInv, Tearing
  <2>2. ~regressed' /\ reap'.state # "none" =>
          (cached'.deleting \/ cached'.phase \in Ending) /\ rec'.pc \in {"idle", "released"}
    BY DEF EnvironmentInv, Tearing
  <2>3. \A r \in Reapers : reaper'[r] # "idle" => reap'.state # "none"
    BY DEF EnvironmentInv, Tearing
  <2>4. ~regressed' /\ reap'.state = "succeeded" => res'.state = "absent"
    BY DEF EnvironmentInv, Tearing
  <2>5. \A r \in Reapers : ~regressed' /\ reaper'[r] = "done" => res'.state = "absent"
    BY DEF EnvironmentInv, Tearing
  <2>q. QED
    BY <2>1, <2>2, <2>3, <2>4, <2>5 DEF Tearing
<1>5. Finalizing'
  BY DEF Finalizing
<1>q. QED
  BY <1>3, <1>4, <1>5 DEF EnvironmentInv
-----------------------------------------------------------------------------
LEMMA DrainStep ==
  ASSUME EnvironmentInv, Drain PROVE EnvironmentInv'
<1>1. /\ Starting /\ ~cached.deleting /\ cached.finalizer /\ Decide(cached) = "drain"
      /\ rec' = rec /\ res' = res /\ reap' = reap /\ Sound
      /\ Watched /\ load' = load /\ cached' = cached /\ reaper' = reaper /\ UNCHANGED clock
  BY DEF Drain, Normal, ControllerKeeps
<1>0. UpdateStatus(cached, "Draining", "None", cached.observed)
  BY DEF Drain
<1>2. cached.phase \notin Ending /\ Expired(cached)
  BY <1>1 DEF Decide, Ending
<1>3. /\ load \in Workloads /\ obj \in Object /\ cached \in Object /\ rec \in Reconcile
      /\ res \in Resources /\ cached \in Known
  BY VersionFacts
<1>4. "Draining" \in Phases /\ "None" \in Operations /\ cached.observed \in 0 .. load.resets
  BY <1>3 DEF Phases, Operations, Object
<1>5. /\ obj' \in Object /\ obj'.live = obj.live /\ obj'.finalizer = obj.finalizer
      /\ obj'.nonce = obj.nonce /\ obj'.renewals = obj.renewals
      /\ obj'.observed = obj.observed
      /\ \/ obj' = obj
         \/ obj'.phase = "Draining" /\ obj'.op \in {obj.op, "None"}
  BY <1>0, <1>2, <1>3, <1>4, Updated DEF Ending, Accepted
<1>5a. regressed' \in BOOLEAN
  BY <1>0, <1>3, <1>4, Updated
<1>5b. regressed => regressed'
  BY <1>0, <1>3, <1>4, Updated
<1>6. /\ obj.live /\ obj.finalizer /\ rec.pc = "idle"
      /\ ~regressed => obj.phase # "Released" /\ reap.state = "none"
  BY <1>1, <1>2, Begins
<1>7. MayStore("Draining")
  BY <1>6 DEF MayStore, Ending
<1>8. obj'.op = "Resetting" => obj'.op = obj.op
  BY <1>5
<1>9. /\ Ordered' /\ Observing' /\ events' \in Seq(Object) /\ OnlyARenewalUndoesDraining'
  BY <1>0, <1>1, <1>3, <1>4, <1>7, <1>8, StatusWrite
<1>10. EnvironmentTypeOK'
  BY <1>1, <1>3, <1>5, <1>5a, <1>9, TypedStep
<1>11. obj'.observed = obj.observed
  BY <1>5
<1>12. Reconciling'
  BY <1>1, <1>6 DEF Reconciling, Provisions, Resets
<1>13. Built'
  BY <1>1, <1>5 DEF EnvironmentInv, Built, ReadyIsPostWipe, InUse
<1>q. QED
  BY <1>1, <1>2, <1>5, <1>5b, <1>6, <1>9, <1>10, <1>12, <1>13, Aftermath

\* A lifecycle that fits no phase is a Failed one, which stays what it is.
LEMMA RejectLifecycleStep ==
  ASSUME EnvironmentInv, RejectLifecycle PROVE EnvironmentInv'
<1>1. /\ Starting /\ ~cached.deleting /\ cached.finalizer /\ Decide(cached) = "invalid"
      /\ rec' = rec /\ res' = res /\ reap' = reap /\ Sound
      /\ Watched /\ load' = load /\ cached' = cached /\ reaper' = reaper /\ UNCHANGED clock
  BY DEF RejectLifecycle, Normal, ControllerKeeps
<1>0. UpdateStatus(cached, "Failed", "None", cached.observed)
  BY DEF RejectLifecycle, Fail
<1>2. /\ load \in Workloads /\ obj \in Object /\ cached \in Object /\ rec \in Reconcile
      /\ res \in Resources /\ cached \in Known /\ Precedes(cached, obj)
  BY VersionFacts
<1>3. cached.observed \in Nat /\ obj.observed \in Nat
  BY <1>2, ObjectFields
<1>4. /\ cached.phase \notin {"Draining", "Released"} /\ cached.op = "Resetting"
      /\ cached.phase \notin {"Ready", "Provisioning"}
  BY <1>1 DEF Decide
<1>5. cached.observed > 0 /\ obj.observed > 0
  BY <1>2, <1>3, <1>4 DEF EnvironmentInv, Observing, Precedes
<1>6. cached.phase = "Failed" /\ obj.phase # "Ready"
  BY <1>2, <1>4, <1>5 DEF EnvironmentInv, Observing, Precedes, Early, Object, Phases
<1>7. "Failed" \in Phases /\ "None" \in Operations /\ cached.observed \in 0 .. load.resets
  BY <1>2 DEF Phases, Operations, Object
<1>8. /\ obj' \in Object /\ obj'.live = obj.live /\ obj'.finalizer = obj.finalizer
      /\ obj'.nonce = obj.nonce /\ obj'.renewals = obj.renewals
      /\ obj'.observed = obj.observed
      /\ \/ obj' = obj
         \/ obj'.phase = obj.phase /\ obj'.op \in {obj.op, "None"}
  BY <1>0, <1>2, <1>6, <1>7, Updated
<1>8a. regressed' \in BOOLEAN
  BY <1>0, <1>2, <1>7, Updated
<1>8b. regressed => regressed'
  BY <1>0, <1>2, <1>7, Updated
<1>9. obj'.phase = obj.phase /\ obj'.observed = obj.observed
  BY <1>8
<1>10. /\ obj.live /\ obj.finalizer /\ rec.pc = "idle"
  BY <1>1, Begins
<1>11. obj'.op = "Resetting" => obj'.op = obj.op
  BY <1>8
<1>12. /\ Ordered' /\ Observing' /\ events' \in Seq(Object) /\ OnlyARenewalUndoesDraining'
  BY <1>0, <1>1, <1>2, <1>6, <1>7, <1>11, StatusWrite
<1>13. EnvironmentTypeOK'
  BY <1>1, <1>2, <1>8, <1>8a, <1>12, TypedStep
<1>14. Reconciling'
  BY <1>1, <1>10 DEF Reconciling, Provisions, Resets
<1>15. Built'
  BY <1>1, <1>6, <1>8, <1>9 DEF EnvironmentInv, Built, ReadyIsPostWipe, InUse
<1>q. QED
  BY <1>1, <1>8, <1>8b, <1>9, <1>10, <1>12, <1>13, <1>14, <1>15, Aftermath

LEMMA StartProvisionStep ==
  ASSUME EnvironmentInv, StartProvision PROVE EnvironmentInv'
<1>1. /\ Starting /\ ~cached.deleting /\ cached.finalizer /\ Decide(cached) = "provision"
      /\ res' = res /\ reap' = reap /\ Sound
      /\ Watched /\ load' = load /\ cached' = cached /\ reaper' = reaper /\ UNCHANGED clock
  BY DEF StartProvision, Normal, ControllerKeeps
<1>2. /\ load \in Workloads /\ obj \in Object /\ cached \in Object /\ rec \in Reconcile
      /\ res \in Resources /\ cached \in Known /\ obj.observed \in Nat /\ regressed \in BOOLEAN
      /\ Precedes(obj, obj)
  BY VersionFacts, ObjectFields
<1>3. /\ cached.phase \in Early /\ cached.phase \notin Ending /\ ~Expired(cached)
  BY <1>1 DEF Decide, Early, Ending
<1>4. obj.observed = 0
  BY <1>2, <1>3 DEF EnvironmentInv, Observing
<1>5. /\ obj.live /\ obj.finalizer /\ rec.pc = "idle"
      /\ ~regressed => obj.phase # "Released" /\ reap.state = "none"
      /\ obj.phase = "Draining" => obj.renewals > 0
  BY <1>1, <1>3, Begins
<1>6. CASE cached.phase = "Pending"
  <2>0. UpdateStatus(cached, "Provisioning", "None", cached.observed)
    BY <1>6 DEF StartProvision
  <2>1. rec' = rec
    BY <1>6 DEF StartProvision
  <2>2. "Provisioning" \in Phases /\ "None" \in Operations /\ cached.observed \in 0 .. load.resets
    BY <1>2 DEF Phases, Operations, Object
  <2>3. /\ obj' \in Object /\ obj'.live = obj.live /\ obj'.finalizer = obj.finalizer
        /\ obj'.nonce = obj.nonce /\ obj'.renewals = obj.renewals
        /\ obj'.observed = obj.observed
        /\ \/ obj' = obj
           \/ obj'.phase = "Provisioning" /\ obj'.op \in {obj.op, "None"}
    BY <1>2, <1>6, <2>0, <2>2, Updated
  <2>3a. regressed' \in BOOLEAN
    BY <1>2, <2>0, <2>2, Updated
  <2>3b. regressed => regressed'
    BY <1>2, <2>0, <2>2, Updated
  <2>4. MayStore("Provisioning")
    BY <1>5, <1>6 DEF MayStore
  <2>5. obj'.op = "Resetting" => obj'.op = obj.op
    BY <2>3
  <2>6. /\ Ordered' /\ Observing' /\ events' \in Seq(Object) /\ OnlyARenewalUndoesDraining'
    BY <1>1, <1>2, <2>0, <2>2, <2>4, <2>5, StatusWrite
  <2>7. EnvironmentTypeOK'
    BY <1>1, <1>2, <2>1, <2>3, <2>3a, <2>6, TypedStep
  <2>8. Reconciling'
    BY <1>5, <2>1 DEF Reconciling, Provisions, Resets
  <2>9. Built'
    BY <1>1, <2>3 DEF EnvironmentInv, Built, ReadyIsPostWipe, InUse
  <2>q. QED
    BY <1>1, <1>5, <2>1, <2>3, <2>3b, <2>6, <2>7, <2>8, <2>9, Aftermath
<1>7. CASE cached.phase = "Provisioning"
  <2>1. /\ WorksOn(cached, "provision", 0) /\ obj' = obj /\ regressed' = regressed
    BY <1>7 DEF StartProvision
  <2>2. 0 \in 0 .. load.resets
    BY <1>2, LoadFacts
  <2>3. /\ rec' \in Reconcile /\ rec'.pc = "provision" /\ rec'.target = 0 /\ rec'.ready = FALSE
        /\ rec'.seen.phase = cached.phase
    BY <1>2, <2>1, <2>2, Works
  <2>4. obj.nonce <= obj.nonce /\ obj.renewals <= obj.renewals
    BY <1>2 DEF Precedes
  <2>5. Ordered' /\ Observing' /\ events' \in Seq(Object)
    BY <1>1, <1>2, <2>1, <2>4, MetaWrite
  <2>6. EnvironmentTypeOK'
    BY <1>1, <1>2, <2>1, <2>3, <2>5, TypedStep
  <2>7. Reconciling'
    BY <1>1, <1>4, <1>7, <2>1, <2>3 DEF Reconciling, Provisions, Resets
  <2>8. Built'
    BY <1>1, <2>1 DEF EnvironmentInv, Built, ReadyIsPostWipe, InUse
  <2>9. OnlyARenewalUndoesDraining'
    BY <2>1 DEF EnvironmentInv, Expiring, OnlyARenewalUndoesDraining
  <2>q. QED
    BY <1>1, <1>5, <2>1, <2>5, <2>6, <2>7, <2>8, <2>9, Aftermath
<1>q. QED
  BY <1>3, <1>6, <1>7 DEF Early
\* An adoption reports a generation that was asked for, and nothing is ready meanwhile.
LEMMA StartResetStep ==
  ASSUME EnvironmentInv, StartReset PROVE EnvironmentInv'
<1>1. /\ Starting /\ ~cached.deleting /\ cached.finalizer /\ Decide(cached) = "reset"
      /\ res' = res /\ reap' = reap /\ Sound
      /\ Watched /\ load' = load /\ cached' = cached /\ reaper' = reaper /\ UNCHANGED clock
  BY DEF StartReset, Normal, ControllerKeeps
<1>2. /\ load \in Workloads /\ obj \in Object /\ cached \in Object /\ rec \in Reconcile
      /\ res \in Resources /\ cached \in Known /\ obj \in Known
      /\ Precedes(cached, obj) /\ Precedes(obj, obj) /\ regressed \in BOOLEAN
  BY VersionFacts
<1>3. /\ cached.phase \notin Ending /\ ~Expired(cached)
      /\ \/ cached.phase = "Ready" /\ cached.nonce > cached.annotated
         \/ cached.op = "Resetting"
  BY <1>1 DEF Decide, Ending
<1>4. /\ cached.nonce \in Nat /\ cached.annotated \in Nat /\ cached.observed \in Nat
      /\ obj.observed \in Nat /\ cached.nonce \in 0 .. load.resets
  BY <1>2, ObjectFields DEF Object
<1>5. /\ obj.live /\ obj.finalizer /\ rec.pc = "idle"
      /\ ~regressed => obj.phase # "Released" /\ reap.state = "none"
      /\ obj.phase = "Draining" => obj.renewals > 0
  BY <1>1, <1>3, Begins
<1>6. obj.observed <= cached.nonce /\ cached.observed <= obj.observed
  BY <1>2 DEF EnvironmentInv, Observing, Precedes
<1>7. CASE cached.op = "Resetting"
  <2>1. obj' = obj /\ regressed' = regressed /\ WorksOn(cached, "adopt", cached.nonce)
    BY <1>7 DEF StartReset
  <2>2. /\ rec' \in Reconcile /\ rec'.pc = "adopt" /\ rec'.target = cached.nonce
        /\ rec'.ready = FALSE /\ rec'.seen.phase = cached.phase
    BY <1>2, <1>4, <2>1, Works
  <2>3. obj.nonce <= obj.nonce /\ obj.renewals <= obj.renewals
    BY <1>2 DEF Precedes
  <2>4. Ordered' /\ Observing' /\ events' \in Seq(Object)
    BY <1>1, <1>2, <2>1, <2>3, MetaWrite
  <2>5. EnvironmentTypeOK'
    BY <1>1, <1>2, <2>1, <2>2, <2>4, TypedStep
  <2>6. cached.observed > 0
    BY <1>2, <1>7 DEF EnvironmentInv, Observing
  <2>7. obj.observed > 0 /\ cached.nonce > 0
    BY <1>4, <1>6, <2>6
  <2>8. cached.phase \notin Early
    BY <1>2, <2>7 DEF EnvironmentInv, Observing
  <2>9. cached.phase # "Ready" => obj.phase # "Ready"
    BY <1>2, <2>6 DEF Precedes
  <2>10. rec'.target <= cached'.nonce
    BY <1>1, <1>4, <2>2
  <2>11. Reconciling'
    BY <1>1, <1>6, <2>1, <2>2, <2>7, <2>8, <2>9, <2>10
       DEF Reconciling, Provisions, Resets, Early
  <2>12. Built'
    BY <1>1, <2>1 DEF EnvironmentInv, Built, ReadyIsPostWipe, InUse
  <2>13. OnlyARenewalUndoesDraining'
    BY <2>1 DEF EnvironmentInv, Expiring, OnlyARenewalUndoesDraining
  <2>q. QED
    BY <1>1, <1>5, <2>1, <2>4, <2>5, <2>11, <2>12, <2>13, Aftermath
<1>8. CASE cached.op # "Resetting"
  <2>0. UpdateStatus(cached, cached.phase, "Resetting", cached.nonce)
    BY <1>8 DEF StartReset
  <2>1. WorksOn(obj', "adopt", cached.nonce)
    BY <1>5, <1>8 DEF StartReset
  <2>2. cached.phase \in Phases /\ "Resetting" \in Operations
    BY <1>2 DEF Operations, Object
  <2>3. cached.phase = "Ready" /\ cached.nonce > 0
    BY <1>3, <1>4, <1>8
  <2>4. Accepted(cached, cached.phase)
    BY <1>5 DEF Accepted, CanTransition
  <2>5. /\ obj' \in Object /\ obj'.live = obj.live /\ obj'.finalizer = obj.finalizer
        /\ obj'.nonce = obj.nonce /\ obj'.renewals = obj.renewals
        /\ obj'.phase = obj.phase /\ obj'.op = "Resetting"
        /\ obj'.observed = IF cached.nonce = cached.observed THEN obj.observed ELSE cached.nonce
    BY <1>2, <1>4, <1>8, <2>0, <2>2, <2>4, Updated
  <2>6. regressed' \in BOOLEAN
    BY <1>2, <1>4, <2>0, <2>2, Updated
  <2>7. regressed => regressed'
    BY <1>2, <1>4, <2>0, <2>2, Updated
  <2>8. obj'.observed = cached.nonce /\ obj'.observed > 0
    BY <1>4, <1>6, <2>3, <2>5
  <2>9. /\ Ordered' /\ Observing' /\ events' \in Seq(Object) /\ OnlyARenewalUndoesDraining'
    BY <1>1, <1>2, <1>4, <1>6, <2>0, <2>2, <2>3, <2>8, StatusWrite
  <2>10. PICK o : o = obj'
    OBVIOUS
  <2>11. o \in Object /\ WorksOn(o, "adopt", cached.nonce)
    BY <2>1, <2>5, <2>10
  <2>12. /\ rec' \in Reconcile /\ rec'.pc = "adopt" /\ rec'.target = cached.nonce
         /\ rec'.ready = FALSE /\ rec'.seen.phase = obj'.phase
    BY <1>2, <1>4, <2>10, <2>11, Works
  <2>13. EnvironmentTypeOK'
    BY <1>1, <1>2, <2>5, <2>6, <2>9, <2>12, TypedStep
  <2>14. obj.phase \notin Early
    BY <1>2, <2>3 DEF Precedes
  <2>15. rec'.target <= cached'.nonce /\ obj'.observed <= rec'.target
    BY <1>1, <1>4, <2>8, <2>12
  <2>16. Reconciling'
    BY <1>1, <2>3, <2>5, <2>8, <2>12, <2>14, <2>15
       DEF Reconciling, Provisions, Resets
  <2>17. Built'
    BY <1>1, <2>5 DEF EnvironmentInv, Built, ReadyIsPostWipe, InUse
  <2>q. QED
    BY <1>1, <1>5, <2>5, <2>7, <2>9, <2>12, <2>13, <2>16, <2>17, Aftermath
<1>q. QED
  BY <1>7, <1>8

LEMMA ObserveResetRequestStep ==
  ASSUME EnvironmentInv, ObserveResetRequest PROVE EnvironmentInv'
<1>1. /\ rec.pc = "adopt" /\ res' = res /\ reap' = reap /\ Sound /\ regressed' = regressed
      /\ Watched /\ load' = load /\ cached' = cached /\ reaper' = reaper /\ UNCHANGED clock
  BY DEF ObserveResetRequest, ControllerKeeps
<1>2. /\ load \in Workloads /\ obj \in Object /\ cached \in Object /\ rec \in Reconcile
      /\ res \in Resources /\ obj \in Known /\ Precedes(obj, obj) /\ regressed \in BOOLEAN
  BY VersionFacts
<1>3. /\ obj.live /\ obj.finalizer
      /\ ~regressed => obj.phase # "Released" /\ reap.state = "none"
      /\ obj.phase = "Draining" => obj.renewals > 0
  BY <1>1, Working
<1>4. PICK e, n : e = rec.seen /\ n = rec.target
  OBVIOUS
<1>5. e \in Object /\ n \in 0 .. load.resets
  BY <1>2, <1>4 DEF Reconcile
<1>6. PICK q : q = [obj EXCEPT !.annotated = e.nonce]
  OBVIOUS
<1>7. /\ q \in Object /\ q.phase = obj.phase /\ q.op = obj.op /\ q.observed = obj.observed
      /\ q.nonce = obj.nonce /\ q.renewals = obj.renewals /\ q.release = obj.release
      /\ q.deleting = obj.deleting /\ q.finalizer = obj.finalizer /\ q.live = obj.live
  BY <1>2, <1>5, <1>6 DEF Object
<1>8. PICK o : o \in Object /\ obj' \in {obj, q} /\ (o = e \/ o = obj') /\ WorksOn(o, "reset", n)
  <2>1. CASE e.annotated # e.nonce
    BY <1>3, <1>4, <1>6, <1>7, <2>1 DEF ObserveResetRequest
  <2>2. CASE e.annotated = e.nonce
    BY <1>4, <1>5, <2>2 DEF ObserveResetRequest
  <2>q. QED
    BY <2>1, <2>2
<1>9. /\ obj' \in Object /\ obj'.phase = obj.phase /\ obj'.op = obj.op
      /\ obj'.observed = obj.observed /\ obj'.nonce = obj.nonce /\ obj'.renewals = obj.renewals
      /\ obj'.release = obj.release /\ obj'.deleting = obj.deleting
      /\ obj'.finalizer = obj.finalizer /\ obj'.live = obj.live
  BY <1>2, <1>7, <1>8
<1>10. obj.nonce <= obj.nonce /\ obj.renewals <= obj.renewals
  BY <1>2 DEF Precedes
<1>11. Ordered' /\ Observing' /\ events' \in Seq(Object)
  BY <1>1, <1>9, <1>10, MetaWrite
<1>12. /\ rec' \in Reconcile /\ rec'.pc = "reset" /\ rec'.target = n /\ rec'.ready = FALSE
       /\ rec'.seen.phase = o.phase
  BY <1>2, <1>5, <1>8, Works
<1>13. EnvironmentTypeOK'
  BY <1>1, <1>2, <1>9, <1>11, <1>12, TypedStep
<1>14. /\ cached.phase # "Pending" /\ n > 0 /\ n <= cached.nonce
       /\ obj.observed > 0 /\ obj.observed <= n
       /\ e.phase \notin Early /\ (e.phase # "Ready" => obj.phase # "Ready")
  BY <1>1, <1>4 DEF EnvironmentInv, Reconciling, Resets
<1>15. obj.phase \notin Early
  BY <1>2, <1>14 DEF EnvironmentInv, Observing
<1>16. o.phase \notin Early /\ (o.phase # "Ready" => obj'.phase # "Ready")
  BY <1>8, <1>9, <1>14, <1>15
<1>17. Reconciling'
  BY <1>1, <1>9, <1>12, <1>14, <1>16 DEF Reconciling, Provisions, Resets
<1>18. Built'
  BY <1>1, <1>9 DEF EnvironmentInv, Built, ReadyIsPostWipe, InUse
<1>19. OnlyARenewalUndoesDraining'
  BY <1>1, <1>9 DEF EnvironmentInv, Expiring, OnlyARenewalUndoesDraining
<1>q. QED
  BY <1>1, <1>3, <1>9, <1>11, <1>12, <1>13, <1>17, <1>18, <1>19, Aftermath
-----------------------------------------------------------------------------
\* What a call of the provider may leave.
WellBuilt(w) ==
  /\ w \in Resources
  /\ w.state # "absent" => w.born >= w.stamp
  /\ w.born <= obj.nonce
  /\ InUse => w.born >= obj.observed

LEMMA ResourcesWellBuilt ==
  ASSUME EnvironmentInv PROVE WellBuilt(res)
BY VersionFacts DEF WellBuilt, EnvironmentInv, Built, ReadyIsPostWipe

LEMMA ResourceFields ==
  ASSUME load \in Workloads, NEW w \in Resources
  PROVE w.stamp \in Nat /\ w.born \in Nat /\ w.state \in {"absent", "active", "terminating"}
<1>1. w.stamp \in 0 .. load.resets /\ w.born \in 0 .. load.resets
      /\ w.state \in {"absent", "active", "terminating"} /\ load.resets \in Nat
  BY LoadFacts DEF Resources
<1>q. QED
  BY <1>1

\* What is built now was asked for no later than now.
LEMMA BuiltNow ==
  ASSUME EnvironmentInv, NEW n \in 0 .. load.resets, n <= cached.nonce,
         NEW w, w = [state |-> "active", stamp |-> n, born |-> obj.nonce]
  PROVE WellBuilt(w) /\ w.born >= n
<1>1. /\ load \in Workloads /\ obj \in Object /\ cached \in Object /\ Precedes(cached, obj)
  BY VersionFacts
<1>2. /\ obj.nonce \in Nat /\ cached.nonce \in Nat /\ obj.observed \in Nat
      /\ obj.nonce \in 0 .. load.resets /\ load.resets \in Nat /\ n \in Nat
  BY <1>1, ObjectFields, LoadFacts DEF Object
<1>3. cached.nonce <= obj.nonce /\ obj.observed <= cached.nonce
  BY <1>1 DEF EnvironmentInv, Observing, Precedes
<1>4. n <= obj.nonce /\ obj.observed <= obj.nonce
  BY <1>2, <1>3
<1>5. w \in Resources /\ w.born = obj.nonce /\ w.stamp = n
  BY <1>2 DEF Resources
<1>q. QED
  BY <1>2, <1>4, <1>5 DEF WellBuilt

LEMMA ProvisionedWellBuilt ==
  ASSUME EnvironmentInv PROVE WellBuilt(Provisioned(0))
<1>1. load \in Workloads /\ cached \in Object
  BY VersionFacts
<1>2. 0 \in 0 .. load.resets /\ 0 <= cached.nonce
  BY <1>1, LoadFacts, ObjectFields
<1>3. PICK w : w = [state |-> "active", stamp |-> 0, born |-> obj.nonce]
  OBVIOUS
<1>4. WellBuilt(w) /\ WellBuilt(res)
  BY <1>2, <1>3, BuiltNow, ResourcesWellBuilt
<1>q. QED
  BY <1>3, <1>4 DEF Provisioned

LEMMA RebuiltWellBuilt ==
  ASSUME EnvironmentInv, rec.pc = "reset"
  PROVE WellBuilt(Rebuilt) /\ (CanBeReady => Rebuilt.born >= rec.target)
<1>1. /\ load \in Workloads /\ rec \in Reconcile /\ res \in Resources
      /\ provider \in {"node", "k8s"}
  BY VersionFacts, LoadFacts DEF provider
<1>2. rec.target \in 0 .. load.resets /\ rec.target <= cached.nonce
  BY <1>1 DEF EnvironmentInv, Reconciling, Resets, Reconcile
<1>3. PICK w : w = [state |-> "active", stamp |-> rec.target, born |-> obj.nonce]
  OBVIOUS
<1>4. WellBuilt(w) /\ w.born >= rec.target
  BY <1>2, <1>3, BuiltNow
<1>5. WellBuilt(res)
  BY ResourcesWellBuilt
<1>6. CASE res.state = "absent"
  BY <1>3, <1>4, <1>6 DEF Rebuilt, Wiped, Provisioned, CanBeReady
<1>7. CASE res.state # "absent" /\ res.stamp = rec.target
  BY <1>5, <1>7 DEF Rebuilt, Wiped, Provisioned, WellBuilt
<1>8. CASE ~Wiped /\ provider = "k8s"
  <2>1. PICK t : t = [res EXCEPT !.state = "terminating"]
    OBVIOUS
  <2>2. t \in Resources /\ t.born = res.born /\ t.stamp = res.stamp
    BY <1>1, <2>1 DEF Resources
  <2>3. WellBuilt(t)
    BY <1>5, <1>8, <2>2 DEF WellBuilt, Wiped
  <2>4. Rebuilt = t /\ ~CanBeReady
    BY <1>8, <2>1 DEF Rebuilt, CanBeReady
  <2>q. QED
    BY <2>3, <2>4
<1>9. CASE ~Wiped /\ provider # "k8s"
  BY <1>3, <1>4, <1>9 DEF Rebuilt
<1>q. QED
  BY <1>6, <1>7, <1>8, <1>9 DEF Wiped

LEMMA HalfDoneWellBuilt ==
  ASSUME EnvironmentInv PROVE WellBuilt(HalfDone)
<1>1. WellBuilt(res) /\ res \in Resources
  BY VersionFacts, ResourcesWellBuilt
<1>2. PICK t : t = [res EXCEPT !.state = "absent"]
  OBVIOUS
<1>3. t \in Resources /\ t.born = res.born /\ t.state = "absent"
  BY <1>1, <1>2 DEF Resources
<1>4. WellBuilt(t)
  BY <1>1, <1>3 DEF WellBuilt
<1>q. QED
  BY <1>1, <1>2, <1>4 DEF HalfDone

LEMMA CallStep ==
  ASSUME EnvironmentInv, CallProvision \/ CallReset PROVE EnvironmentInv'
<1>1. /\ rec.pc \in {"provision", "reset"} /\ obj' = obj /\ reap' = reap /\ Sound
      /\ regressed' = regressed
      /\ Watched /\ load' = load /\ cached' = cached /\ reaper' = reaper /\ UNCHANGED clock
  BY DEF CallProvision, CallReset, ControllerKeeps
<1>2. /\ load \in Workloads /\ obj \in Object /\ cached \in Object /\ rec \in Reconcile
      /\ res \in Resources /\ Precedes(obj, obj) /\ regressed \in BOOLEAN
  BY VersionFacts
<1>3. /\ obj.live /\ obj.finalizer
      /\ ~regressed => obj.phase # "Released" /\ reap.state = "none"
      /\ obj.phase = "Draining" => obj.renewals > 0
  BY <1>1, Working
<1>4. /\ rec.pc = "provision" => rec.target = 0 /\ res' = Provisioned(0)
      /\ rec.pc = "reset" => rec.target > 0 /\ res' = Rebuilt
  BY DEF CallProvision, CallReset, EnvironmentInv, Reconciling, Provisions, Resets
<1>5. WellBuilt(Provisioned(0)) /\ (rec.pc = "reset" => WellBuilt(Rebuilt))
  BY ProvisionedWellBuilt, RebuiltWellBuilt
<1>6. PICK w : w = res'
  OBVIOUS
<1>7. WellBuilt(w)
  BY <1>1, <1>4, <1>5, <1>6
<1>8. PICK ready \in BOOLEAN : Observe(ready) /\ (rec.pc = "reset" /\ ready => CanBeReady)
  BY DEF CallProvision, CallReset, CanBeReady
<1>9. PICK k : k = [rec EXCEPT !.pc = "observed", !.ready = ready]
  OBVIOUS
<1>10. /\ rec' = k /\ k \in Reconcile /\ k.pc = "observed" /\ k.ready = ready
       /\ k.seen = rec.seen /\ k.target = rec.target
  BY <1>2, <1>8, <1>9 DEF Observe, Reconcile
<1>11. obj.nonce <= obj.nonce /\ obj.renewals <= obj.renewals
  BY <1>2 DEF Precedes
<1>12. Ordered' /\ Observing' /\ events' \in Seq(Object)
  BY <1>1, <1>2, <1>11, MetaWrite
<1>13. w \in Resources /\ w.born \in Nat /\ rec.target \in Nat
  BY <1>2, <1>7, ResourceFields, LoadFacts DEF WellBuilt, Reconcile
<1>14. EnvironmentTypeOK'
  BY <1>1, <1>2, <1>6, <1>10, <1>12, <1>13, TypedStep
<1>15. k.ready => w.born >= k.target
  <2>1. CASE rec.pc = "provision"
    BY <1>4, <1>10, <1>13, <2>1
  <2>2. CASE rec.pc = "reset"
    BY <1>4, <1>6, <1>8, <1>10, <2>2, RebuiltWellBuilt
  <2>q. QED
    BY <1>1, <2>1, <2>2
<1>16. Reconciling'
  <2>1. CASE rec.pc = "provision"
    BY <1>1, <1>4, <1>6, <1>10, <1>15, <2>1
       DEF EnvironmentInv, Reconciling, Provisions, Resets
  <2>2. CASE rec.pc = "reset"
    BY <1>1, <1>4, <1>6, <1>10, <1>15, <2>2
       DEF EnvironmentInv, Reconciling, Provisions, Resets
  <2>q. QED
    BY <1>1, <2>1, <2>2
<1>17. Built'
  BY <1>1, <1>6, <1>7 DEF WellBuilt, Built, ReadyIsPostWipe, InUse
<1>18. OnlyARenewalUndoesDraining'
  BY <1>1 DEF EnvironmentInv, Expiring, OnlyARenewalUndoesDraining
<1>q. QED
  BY <1>1, <1>3, <1>12, <1>14, <1>16, <1>17, <1>18, Aftermath
-----------------------------------------------------------------------------
\* A reconcile that ends leaves nothing to rely on.
LEMMA RestingReconciles ==
  ASSUME rec' = Resting PROVE Reconciling'
BY DEF Resting, Reconciling, Provisions, Resets

LEMMA ApplyObservationStep ==
  ASSUME EnvironmentInv, ApplyObservation PROVE EnvironmentInv'
<1>1. /\ rec.pc = "observed" /\ rec' = Resting /\ res' = res /\ reap' = reap /\ Sound
      /\ Watched /\ load' = load /\ cached' = cached /\ reaper' = reaper /\ UNCHANGED clock
  BY DEF ApplyObservation, ControllerKeeps
<1>2. /\ load \in Workloads /\ obj \in Object /\ cached \in Object /\ rec \in Reconcile
      /\ res \in Resources /\ obj \in Known /\ Resting \in Reconcile /\ Resting.pc = "idle"
  BY VersionFacts, NewObjectTyped
<1>3. /\ obj.live /\ obj.finalizer
      /\ ~regressed => obj.phase # "Released" /\ reap.state = "none"
      /\ obj.phase = "Draining" => obj.renewals > 0
  BY <1>1, Working
<1>4. PICK e : e = rec.seen
  OBVIOUS
<1>5. /\ e \in Object /\ rec.target \in 0 .. load.resets
      /\ e.phase \in Phases /\ e.op \in Operations /\ e.observed \in 0 .. load.resets
  BY <1>2, <1>4 DEF Reconcile, Object
<1>6. /\ rec.target \in Nat /\ res.born \in Nat /\ obj.observed \in Nat
  BY <1>2, <1>5, LoadFacts, ObjectFields, ResourceFields
<1>7. /\ cached.phase # "Pending"
      /\ rec.target = 0 => e.phase = "Provisioning" /\ obj.observed = 0
      /\ rec.target > 0 => /\ obj.observed > 0 /\ obj.observed <= rec.target
                           /\ e.phase \notin Early
      /\ rec.ready => res.born >= rec.target
  BY <1>1, <1>4, <1>6 DEF EnvironmentInv, Reconciling, Provisions, Resets
<1>8. Reconciling'
  BY <1>1, RestingReconciles
<1>9. CASE rec.ready
  <2>0. UpdateStatus(e, "Ready", "None", e.observed)
    BY <1>4, <1>9 DEF ApplyObservation
  <2>1. "Ready" \in Phases /\ "None" \in Operations
    BY DEF Phases, Operations
  <2>2. /\ obj' \in Object /\ obj'.live = obj.live /\ obj'.finalizer = obj.finalizer
        /\ obj'.nonce = obj.nonce /\ obj'.renewals = obj.renewals
        /\ obj'.observed = obj.observed
        /\ \/ obj' = obj
           \/ obj'.phase \in {obj.phase, "Ready"} /\ obj'.op \in {obj.op, "None"}
    BY <1>5, <2>0, <2>1, Updated
  <2>3. regressed' \in BOOLEAN
    BY <1>5, <2>0, <2>1, Updated
  <2>4. regressed => regressed'
    BY <1>5, <2>0, <2>1, Updated
  <2>5. ASSUME Accepted(e, "Ready"), "Ready" # e.phase PROVE MayStore("Ready")
    <3>1. e.phase = "Provisioning"
      BY <2>5 DEF Accepted, CanTransition
    <3>2. rec.target = 0
      BY <1>6, <1>7, <3>1 DEF Early
    <3>q. QED
      BY <1>3, <1>7, <3>2 DEF MayStore
  <2>6. obj'.op = "Resetting" => obj'.op = obj.op
    BY <2>2
  <2>7. /\ Ordered' /\ Observing' /\ events' \in Seq(Object) /\ OnlyARenewalUndoesDraining'
    BY <1>1, <1>5, <2>0, <2>1, <2>5, <2>6, StatusWrite
  <2>8. EnvironmentTypeOK'
    BY <1>1, <1>2, <2>2, <2>3, <2>7, TypedStep
  <2>9. res.born >= obj.observed
    BY <1>6, <1>7, <1>9
  <2>10. Built'
    BY <1>1, <2>2, <2>9 DEF EnvironmentInv, Built, ReadyIsPostWipe
  <2>q. QED
    BY <1>1, <1>2, <1>3, <1>8, <2>2, <2>4, <2>7, <2>8, <2>10, Aftermath
<1>10. CASE ~rec.ready
  <2>0. PICK op \in Operations :
          /\ UpdateStatus(e, e.phase, op, e.observed)
          /\ op # e.op => op = "Resetting" /\ rec.target > 0
    <3>1. PICK op : op = IF rec.target > 0 THEN "Resetting" ELSE e.op
      OBVIOUS
    <3>2. op \in Operations /\ (op # e.op => op = "Resetting" /\ rec.target > 0)
      BY <1>5, <3>1 DEF Operations
    <3>3. UpdateStatus(e, e.phase, op, e.observed)
      BY <1>4, <1>10, <3>1 DEF ApplyObservation
    <3>q. QED
      BY <3>2, <3>3
  <2>1. /\ obj' \in Object /\ obj'.live = obj.live /\ obj'.finalizer = obj.finalizer
        /\ obj'.nonce = obj.nonce /\ obj'.renewals = obj.renewals
        /\ obj'.observed = obj.observed /\ obj'.phase = obj.phase
        /\ obj'.deleting = obj.deleting
        /\ obj'.op = obj.op \/ (obj'.op = "Resetting" /\ rec.target > 0)
    BY <1>5, <2>0, Updated
  <2>3. regressed' \in BOOLEAN
    BY <1>5, <2>0, Updated
  <2>4. regressed => regressed'
    BY <1>5, <2>0, Updated
  <2>6. obj'.op = "Resetting" /\ obj'.op # obj.op => obj'.observed > 0
    BY <1>7, <2>1
  <2>7. /\ Ordered' /\ Observing' /\ events' \in Seq(Object) /\ OnlyARenewalUndoesDraining'
    BY <1>1, <1>5, <2>0, <2>6, StatusWrite
  <2>8. EnvironmentTypeOK'
    BY <1>1, <1>2, <2>1, <2>3, <2>7, TypedStep
  <2>10. Built'
    BY <1>1, <2>1 DEF EnvironmentInv, Built, ReadyIsPostWipe, InUse
  <2>q. QED
    BY <1>1, <1>2, <1>3, <1>8, <2>1, <2>4, <2>7, <2>8, <2>10, Aftermath
<1>q. QED
  BY <1>9, <1>10

\* The failure of a call is stored over anything but the end; it is not a ready state.
LEMMA FailedCall ==
  ASSUME EnvironmentInv, rec.pc \in {"provision", "reset"}, Fail(rec.seen),
         load' = load, cached' = cached, Watched
  PROVE /\ Ordered' /\ Observing' /\ events' \in Seq(Object) /\ OnlyARenewalUndoesDraining'
        /\ obj' \in Object /\ obj'.live = obj.live /\ obj'.finalizer = obj.finalizer
        /\ obj'.nonce = obj.nonce /\ obj'.renewals = obj.renewals
        /\ obj' = obj \/ obj'.phase = "Failed" \/ (obj'.phase = obj.phase /\ obj'.phase # "Ready")
        /\ regressed => regressed'
<1>1. /\ load \in Workloads /\ obj \in Object /\ cached \in Object /\ rec \in Reconcile
  BY VersionFacts
<1>2. /\ obj.live /\ obj.finalizer
      /\ ~regressed => obj.phase # "Released" /\ reap.state = "none"
      /\ obj.phase = "Draining" => obj.renewals > 0
  BY Working
<1>3. PICK e : e = rec.seen
  OBVIOUS
<1>4. e \in Object /\ e.phase \in Phases /\ e.observed \in 0 .. load.resets
  BY <1>1, <1>3 DEF Reconcile, Object
<1>5. UpdateStatus(e, "Failed", "None", e.observed)
  BY <1>3 DEF Fail
<1>6. "Failed" \in Phases /\ "None" \in Operations
  BY DEF Phases, Operations
<1>7. /\ cached.phase # "Pending"
      /\ e.phase = "Failed" => obj.phase # "Ready"
  BY <1>3 DEF EnvironmentInv, Reconciling, Provisions, Resets
<1>8. /\ obj' \in Object /\ obj'.live = obj.live /\ obj'.finalizer = obj.finalizer
      /\ obj'.nonce = obj.nonce /\ obj'.renewals = obj.renewals
      /\ \/ obj' = obj
         \/ /\ obj'.phase = IF "Failed" = e.phase THEN obj.phase ELSE "Failed"
            /\ obj'.op \in {obj.op, "None"}
  BY <1>4, <1>5, <1>6, Updated
<1>9. regressed => regressed'
  BY <1>4, <1>5, <1>6, Updated
<1>10. MayStore("Failed")
  BY <1>2, <1>7 DEF MayStore
<1>11. obj'.op = "Resetting" => obj'.op = obj.op
  BY <1>8
<1>12. /\ Ordered' /\ Observing' /\ events' \in Seq(Object) /\ OnlyARenewalUndoesDraining'
  BY <1>4, <1>5, <1>6, <1>10, <1>11, StatusWrite
<1>13. obj' = obj \/ obj'.phase = "Failed" \/ (obj'.phase = obj.phase /\ obj'.phase # "Ready")
  BY <1>7, <1>8
<1>q. QED
  BY <1>8, <1>9, <1>12, <1>13

LEMMA FailedCallFlag ==
  ASSUME EnvironmentInv, rec.pc \in {"provision", "reset"}, Fail(rec.seen)
  PROVE regressed' \in BOOLEAN
<1>1. regressed \in BOOLEAN
  BY VersionFacts
<1>q. QED
  BY <1>1 DEF Fail, UpdateStatus

\* A call that fails has had its effect, half of it, or none.
LEMMA FailureStep ==
  ASSUME EnvironmentInv, ProviderFailure \/ ResetTimesOut PROVE EnvironmentInv'
<1>1. /\ rec.pc \in {"provision", "reset"} /\ rec' = Resting /\ reap' = reap /\ Fault
      /\ Watched /\ load' = load /\ cached' = cached /\ reaper' = reaper /\ UNCHANGED clock
  BY DEF ProviderFailure, ResetTimesOut, ControllerKeeps
<1>2. (obj' = obj /\ regressed' = regressed) \/ Fail(rec.seen)
  BY DEF ProviderFailure, ResetTimesOut
<1>3. /\ load \in Workloads /\ obj \in Object /\ cached \in Object /\ rec \in Reconcile
      /\ Resting \in Reconcile /\ Resting.pc = "idle" /\ Precedes(obj, obj)
      /\ regressed \in BOOLEAN
  BY VersionFacts, NewObjectTyped
<1>4. /\ obj.live /\ obj.finalizer
      /\ ~regressed => obj.phase # "Released" /\ reap.state = "none"
      /\ obj.phase = "Draining" => obj.renewals > 0
  BY <1>1, Working
<1>5. PICK w : w = res'
  OBVIOUS
<1>6. WellBuilt(w)
  <2>1. WellBuilt(res) /\ WellBuilt(HalfDone) /\ WellBuilt(Provisioned(0))
    BY ResourcesWellBuilt, HalfDoneWellBuilt, ProvisionedWellBuilt
  <2>2. rec.pc = "reset" => WellBuilt(Rebuilt)
    BY RebuiltWellBuilt
  <2>3. w \in {res, HalfDone, Provisioned(0)} \/ (rec.pc = "reset" /\ w = Rebuilt)
    BY <1>5 DEF ProviderFailure, ResetTimesOut
  <2>q. QED
    BY <2>1, <2>2, <2>3
<1>7. w \in Resources
  BY <1>6 DEF WellBuilt
<1>8. Reconciling'
  BY <1>1, RestingReconciles
<1>9. CASE obj' = obj /\ regressed' = regressed
  <2>1. obj.nonce <= obj.nonce /\ obj.renewals <= obj.renewals
    BY <1>3 DEF Precedes
  <2>2. Ordered' /\ Observing' /\ events' \in Seq(Object)
    BY <1>1, <1>3, <1>9, <2>1, MetaWrite
  <2>3. EnvironmentTypeOK'
    BY <1>1, <1>3, <1>5, <1>7, <1>9, <2>2, TypedStep
  <2>4. Built'
    BY <1>5, <1>6, <1>9 DEF WellBuilt, Built, ReadyIsPostWipe, InUse
  <2>5. OnlyARenewalUndoesDraining'
    BY <1>9 DEF EnvironmentInv, Expiring, OnlyARenewalUndoesDraining
  <2>q. QED
    BY <1>1, <1>3, <1>4, <1>8, <1>9, <2>2, <2>3, <2>4, <2>5, Aftermath
<1>10. CASE Fail(rec.seen)
  <2>1. /\ Ordered' /\ Observing' /\ events' \in Seq(Object) /\ OnlyARenewalUndoesDraining'
        /\ obj' \in Object /\ obj'.live = obj.live /\ obj'.finalizer = obj.finalizer
        /\ obj'.nonce = obj.nonce /\ obj'.renewals = obj.renewals
        /\ obj' = obj \/ obj'.phase = "Failed" \/ (obj'.phase = obj.phase /\ obj'.phase # "Ready")
    BY <1>1, <1>10, FailedCall
  <2>2. regressed => regressed'
    BY <1>1, <1>10, FailedCall
  <2>3. regressed' \in BOOLEAN
    BY <1>1, <1>10, FailedCallFlag
  <2>4. EnvironmentTypeOK'
    BY <1>1, <1>3, <1>5, <1>7, <2>1, <2>3, TypedStep
  <2>5. Built'
    BY <1>5, <1>6, <2>1 DEF WellBuilt, Built, ReadyIsPostWipe, InUse
  <2>q. QED
    BY <1>1, <1>3, <1>4, <1>8, <2>1, <2>2, <2>4, <2>5, Aftermath
<1>q. QED
  BY <1>2, <1>9, <1>10
LEMMA Stutter ==
  ASSUME EnvironmentInv, UNCHANGED vars PROVE EnvironmentInv'
<1>1. /\ load' = load /\ obj' = obj /\ cached' = cached /\ events' = events /\ rec' = rec
      /\ res' = res /\ reap' = reap /\ reaper' = reaper /\ idled' = idled /\ aged' = aged
      /\ regressed' = regressed /\ faults' = faults
  BY DEF vars
<1>2. EnvironmentTypeOK'
  BY <1>1, SameTypes DEF EnvironmentInv, EnvironmentTypeOK, Reap
<1>3. Ordered'
  BY <1>1 DEF EnvironmentInv, Ordered, Precedes, Known
<1>4. Observing' /\ Reconciling'
  BY <1>1 DEF EnvironmentInv, Observing, Known, Reconciling, Provisions, Resets
<1>5. Built' /\ Expiring'
  BY <1>1 DEF EnvironmentInv, Built, ReadyIsPostWipe, InUse, Expiring, Expired,
              OnlyARenewalUndoesDraining
<1>6. Tearing' /\ Finalizing'
  BY <1>1 DEF EnvironmentInv, Tearing, Finalizing, Known
<1>q. QED
  BY <1>2, <1>3, <1>4, <1>5, <1>6 DEF EnvironmentInv

LEMMA WriteFailsStep ==
  ASSUME EnvironmentInv, WriteFails PROVE EnvironmentInv'
<1>1. /\ rec.pc # "idle" /\ rec' = Resting /\ obj' = obj /\ res' = res /\ reap' = reap /\ Fault
      /\ regressed' = regressed
      /\ Watched /\ load' = load /\ cached' = cached /\ reaper' = reaper /\ UNCHANGED clock
  BY DEF WriteFails, ControllerKeeps
<1>2. /\ load \in Workloads /\ obj \in Object /\ cached \in Object
      /\ res \in Resources /\ Precedes(obj, obj) /\ regressed \in BOOLEAN
      /\ Resting \in Reconcile /\ Resting.pc = "idle"
  BY VersionFacts, NewObjectTyped
<1>3. obj.live /\ obj.finalizer
  BY <1>1, Working
<1>4. obj.nonce <= obj.nonce /\ obj.renewals <= obj.renewals
  BY <1>2 DEF Precedes
<1>5. Ordered' /\ Observing' /\ events' \in Seq(Object)
  BY <1>1, <1>2, <1>4, MetaWrite
<1>6. EnvironmentTypeOK'
  BY <1>1, <1>2, <1>5, TypedStep
<1>7. Reconciling'
  BY <1>1, RestingReconciles
<1>8. Built'
  BY <1>1 DEF EnvironmentInv, Built, ReadyIsPostWipe, InUse
<1>9. OnlyARenewalUndoesDraining'
  BY <1>1 DEF EnvironmentInv, Expiring, OnlyARenewalUndoesDraining
<1>q. QED
  BY <1>1, <1>2, <1>3, <1>5, <1>6, <1>7, <1>8, <1>9, Aftermath

LEMMA DeleteReleasedStep ==
  ASSUME EnvironmentInv, DeleteReleased PROVE EnvironmentInv'
<1>1. /\ rec.pc = "released" /\ rec' = Resting /\ res' = res /\ reap' = reap
      /\ regressed' = regressed /\ (obj' = obj \/ obj' = Deleted(obj)) /\ (Sound \/ Fault)
      /\ Watched /\ load' = load /\ cached' = cached /\ reaper' = reaper /\ UNCHANGED clock
  BY DEF DeleteReleased, ControllerKeeps
<1>2. /\ load \in Workloads /\ obj \in Object /\ cached \in Object
      /\ res \in Resources /\ Precedes(obj, obj) /\ regressed \in BOOLEAN
      /\ Resting \in Reconcile /\ Resting.pc = "idle"
  BY VersionFacts, NewObjectTyped
<1>3. obj.live /\ obj.finalizer
  BY <1>1, Working
<1>4. obj.nonce <= obj.nonce /\ obj.renewals <= obj.renewals
  BY <1>2 DEF Precedes
<1>5. PICK q : q = Deleted(obj)
  OBVIOUS
<1>6. obj.finalizer \in BOOLEAN
  BY <1>2, ObjectFields
<1>7. /\ q \in Object /\ q.phase = obj.phase /\ q.op = obj.op /\ q.observed = obj.observed
      /\ q.nonce = obj.nonce /\ q.renewals = obj.renewals /\ q.release = obj.release
      /\ q.deleting /\ q.finalizer = obj.finalizer /\ q.live = obj.finalizer
  BY <1>2, <1>5, <1>6 DEF Deleted, Object
<1>8. /\ obj' \in Object /\ obj'.phase = obj.phase /\ obj'.op = obj.op
      /\ obj'.observed = obj.observed
      /\ obj'.nonce = obj.nonce /\ obj'.renewals = obj.renewals /\ obj'.release = obj.release
      /\ obj'.live /\ obj'.finalizer /\ (obj.deleting => obj'.deleting)
  BY <1>1, <1>2, <1>3, <1>5, <1>7
<1>9. Ordered' /\ Observing' /\ events' \in Seq(Object)
  BY <1>1, <1>3, <1>4, <1>8, MetaWrite
<1>10. EnvironmentTypeOK'
  BY <1>1, <1>2, <1>8, <1>9, TypedStep
<1>11. Reconciling'
  BY <1>1, RestingReconciles
<1>12. Built'
  BY <1>1, <1>3, <1>8 DEF EnvironmentInv, Built, ReadyIsPostWipe, InUse
<1>13. OnlyARenewalUndoesDraining'
  BY <1>1, <1>8 DEF EnvironmentInv, Expiring, OnlyARenewalUndoesDraining
<1>q. QED
  BY <1>1, <1>2, <1>8, <1>9, <1>10, <1>11, <1>12, <1>13, Aftermath

LEMMA MarkReleasedStep ==
  ASSUME EnvironmentInv, MarkReleased PROVE EnvironmentInv'
<1>1. /\ Starting /\ ~cached.deleting /\ cached.finalizer /\ cached.phase = "Draining"
      /\ res' = res /\ reap' = reap /\ Sound
      /\ Watched /\ load' = load /\ cached' = cached /\ reaper' = reaper /\ UNCHANGED clock
  BY DEF MarkReleased, Reaping, Decide, ControllerKeeps
<1>2. /\ load \in Workloads /\ obj \in Object /\ cached \in Object
      /\ res \in Resources
      /\ NewObject \in Object /\ 0 \in 0 .. load.resets
  BY VersionFacts, NewObjectTyped, LoadFacts
<1>3. obj.live /\ obj.finalizer /\ rec.pc = "idle"
  BY <1>1, Begins
<1>4. UpdateStatus(cached, "Released", "None", cached.observed)
  BY DEF MarkReleased
<1>5. WorksOn(NewObject, "released", 0)
  BY <1>3 DEF MarkReleased
<1>6. rec' \in Reconcile /\ rec'.pc = "released"
  BY <1>2, <1>5, Works
<1>7. "Released" \in Phases /\ "None" \in Operations /\ cached.observed \in 0 .. load.resets
  BY <1>2 DEF Phases, Operations, Object
<1>8. Accepted(cached, "Released")
  BY <1>1, <1>3 DEF Accepted, CanTransition
<1>9. /\ obj' \in Object /\ obj'.live = obj.live /\ obj'.finalizer = obj.finalizer
      /\ obj'.nonce = obj.nonce /\ obj'.renewals = obj.renewals
      /\ obj'.phase = "Released" /\ obj'.op \in {obj.op, "None"}
  BY <1>1, <1>2, <1>4, <1>7, <1>8, Updated
<1>10. regressed' \in BOOLEAN
  BY <1>2, <1>4, <1>7, Updated
<1>11. regressed => regressed'
  BY <1>2, <1>4, <1>7, Updated
<1>12. MayStore("Released")
  BY DEF MayStore, Ending
<1>13. obj'.op = "Resetting" => obj'.op = obj.op
  BY <1>9
<1>14. /\ Ordered' /\ Observing' /\ events' \in Seq(Object) /\ OnlyARenewalUndoesDraining'
  BY <1>1, <1>2, <1>4, <1>7, <1>12, <1>13, StatusWrite
<1>15. EnvironmentTypeOK'
  BY <1>1, <1>2, <1>6, <1>9, <1>10, <1>14, TypedStep
<1>16. Reconciling'
  BY <1>6 DEF Reconciling, Provisions, Resets
<1>17. Built'
  BY <1>1, <1>9 DEF EnvironmentInv, Built, ReadyIsPostWipe, InUse
<1>18. cached.phase \in Ending
  BY <1>1 DEF Ending
<1>q. QED
  BY <1>1, <1>3, <1>6, <1>9, <1>11, <1>14, <1>15, <1>16, <1>17, <1>18, Aftermath
LEMMA AddFinalizerStep ==
  ASSUME EnvironmentInv, AddFinalizer PROVE EnvironmentInv'
<1>1. /\ rec.pc = "idle" /\ rec' = rec /\ res' = res /\ reap' = reap
      /\ regressed' = regressed /\ Sound
      /\ Watched /\ load' = load /\ cached' = cached /\ reaper' = reaper /\ UNCHANGED clock
  BY DEF AddFinalizer, Starting, ControllerKeeps
<1>2. /\ load \in Workloads /\ obj \in Object /\ cached \in Object /\ rec \in Reconcile
      /\ res \in Resources /\ Precedes(obj, obj) /\ regressed \in BOOLEAN
  BY VersionFacts
<1>3. CASE obj.live
  <2>1. PICK q : q = [obj EXCEPT !.finalizer = TRUE]
    OBVIOUS
  <2>2. /\ q \in Object /\ q.phase = obj.phase /\ q.op = obj.op /\ q.observed = obj.observed
        /\ q.nonce = obj.nonce /\ q.renewals = obj.renewals /\ q.release = obj.release
        /\ q.deleting = obj.deleting /\ q.finalizer /\ q.live = obj.live
    BY <1>2, <2>1 DEF Object
  <2>3. obj' = q
    BY <1>3, <2>1 DEF AddFinalizer
  <2>4. obj.nonce <= obj.nonce /\ obj.renewals <= obj.renewals
    BY <1>2 DEF Precedes
  <2>5. Ordered' /\ Observing' /\ events' \in Seq(Object)
    BY <1>1, <1>3, <2>2, <2>3, <2>4, MetaWrite
  <2>6. EnvironmentTypeOK'
    BY <1>1, <1>2, <2>2, <2>3, <2>5, TypedStep
  <2>7. Reconciling'
    BY <1>1 DEF Reconciling, Provisions, Resets
  <2>8. Built'
    BY <1>1, <2>2, <2>3 DEF EnvironmentInv, Built, ReadyIsPostWipe, InUse
  <2>9. OnlyARenewalUndoesDraining'
    BY <1>1, <2>2, <2>3 DEF EnvironmentInv, Expiring, OnlyARenewalUndoesDraining
  <2>q. QED
    BY <1>1, <1>3, <2>2, <2>3, <2>5, <2>6, <2>7, <2>8, <2>9, Aftermath
<1>4. CASE ~obj.live
  <2>1. obj' = obj
    BY <1>4 DEF AddFinalizer
  <2>2. UNCHANGED vars
    BY <1>1, <2>1 DEF vars, clock, Watched, Sound
  <2>q. QED
    BY <2>2, Stutter
<1>q. QED
  BY <1>3, <1>4

\* The finalizer goes when the deletion is known and the teardown has succeeded.
LEMMA RemoveFinalizerStep ==
  ASSUME EnvironmentInv, RemoveFinalizer PROVE EnvironmentInv'
<1>1. /\ rec.pc = "idle" /\ rec' = rec /\ res' = res /\ reap' = reap
      /\ cached.deleting /\ reap.state = "succeeded"
      /\ regressed' = regressed /\ Sound
      /\ Watched /\ load' = load /\ cached' = cached /\ reaper' = reaper /\ UNCHANGED clock
  BY DEF RemoveFinalizer, Starting, ControllerKeeps
<1>2. /\ load \in Workloads /\ obj \in Object /\ cached \in Object /\ rec \in Reconcile
      /\ res \in Resources /\ Precedes(obj, obj) /\ Precedes(cached, obj) /\ regressed \in BOOLEAN
  BY VersionFacts
<1>3. CASE obj.live
  <2>1. obj.deleting
    BY <1>1, <1>2 DEF Precedes
  <2>2. PICK q : q = [obj EXCEPT !.finalizer = FALSE, !.live = FALSE]
    OBVIOUS
  <2>3. /\ q \in Object /\ q.phase = obj.phase /\ q.op = obj.op /\ q.observed = obj.observed
        /\ q.nonce = obj.nonce /\ q.renewals = obj.renewals /\ q.release = obj.release
        /\ q.deleting = obj.deleting /\ ~q.finalizer /\ ~q.live
    BY <1>2, <2>2 DEF Object
  <2>4. obj' = q
    BY <1>3, <2>1, <2>2 DEF RemoveFinalizer
  <2>5. obj.nonce <= obj.nonce /\ obj.renewals <= obj.renewals
    BY <1>2 DEF Precedes
  <2>6. Ordered' /\ Observing' /\ events' \in Seq(Object)
    BY <1>1, <1>3, <2>3, <2>4, <2>5, MetaWrite
  <2>7. EnvironmentTypeOK'
    BY <1>1, <1>2, <2>3, <2>4, <2>6, TypedStep
  <2>8. Reconciling'
    BY <1>1 DEF Reconciling, Provisions, Resets
  <2>9. Built'
    BY <1>1, <2>3, <2>4 DEF EnvironmentInv, Built, ReadyIsPostWipe, InUse
  <2>10. Expiring'
    BY <1>1, <2>3, <2>4 DEF EnvironmentInv, Expiring, OnlyARenewalUndoesDraining, Expired, clock
  <2>11. Tearing'
    BY <1>1, <2>3, <2>4 DEF EnvironmentInv, Tearing
  <2>12. regressed \/ res.state = "absent"
    BY <1>1 DEF EnvironmentInv, Tearing
  <2>13. Finalizing'
    BY <1>1, <2>1, <2>3, <2>4, <2>12 DEF Finalizing
  <2>q. QED
    BY <2>6, <2>7, <2>8, <2>9, <2>10, <2>11, <2>13 DEF EnvironmentInv
<1>4. CASE ~obj.live
  <2>1. obj' = obj
    BY <1>4 DEF RemoveFinalizer
  <2>2. UNCHANGED vars
    BY <1>1, <2>1 DEF vars, clock, Watched, Sound
  <2>q. QED
    BY <2>2, Stutter
<1>q. QED
  BY <1>3, <1>4

LEMMA EnqueueReapStep ==
  ASSUME EnvironmentInv, EnqueueReap PROVE EnvironmentInv'
<1>1. /\ rec.pc = "idle" /\ cached.live /\ cached.finalizer /\ reap.state = "none"
      /\ cached.deleting \/ cached.phase \in Ending
      /\ obj' = obj /\ rec' = rec /\ res' = res /\ regressed' = regressed /\ faults' = faults
      /\ Watched /\ load' = load /\ cached' = cached /\ reaper' = reaper
      /\ idled' = idled /\ aged' = aged
  BY DEF EnqueueReap, Starting, Reaping, Decide, Ending, ControllerKeeps, clock, Sound
<1>2. reap' = [reap EXCEPT !.state = "queued"]
  BY DEF EnqueueReap
<1>3. /\ load \in Workloads /\ reap \in Reap /\ Precedes(cached, obj)
  BY VersionFacts
<1>4. /\ reap' \in Reap /\ reap'.state = "queued" /\ reap'.holder = reap.holder
      /\ reap'.leased = reap.leased
  BY <1>2, <1>3 DEF Reap
<1>5. events' = events
  BY <1>1 DEF Watched
<1>6. EnvironmentTypeOK'
  <2>1. reap.holder = NoReaper /\ ~reap.leased
    BY <1>1 DEF EnvironmentInv, EnvironmentTypeOK
  <2>2. Reap' = Reap
    BY DEF Reap
  <2>q. QED
    BY <1>1, <1>4, <1>5, <2>1, <2>2, SameTypes DEF EnvironmentInv, EnvironmentTypeOK
<1>7. Ordered'
  BY <1>1, <1>5 DEF EnvironmentInv, Ordered, Precedes, Known
<1>8. Observing' /\ Reconciling'
  BY <1>1, <1>5 DEF EnvironmentInv, Observing, Known, Reconciling, Provisions, Resets
<1>9. Built' /\ Expiring'
  BY <1>1 DEF EnvironmentInv, Built, ReadyIsPostWipe, InUse, Expiring, Expired,
              OnlyARenewalUndoesDraining
<1>10. Tearing'
  BY <1>1, <1>4 DEF EnvironmentInv, Tearing
<1>11. Finalizing'
  <2>1. obj.live => obj.finalizer
    BY <1>1, <1>3 DEF Precedes
  <2>q. QED
    BY <1>1, <1>5, <2>1 DEF EnvironmentInv, Finalizing, Known
<1>q. QED
  BY <1>6, <1>7, <1>8, <1>9, <1>10, <1>11 DEF EnvironmentInv
-----------------------------------------------------------------------------
\* The copy moves forward, and may take the running reconcile with it.
LEMMA Forward ==
  ASSUME EnvironmentInv, EnvironmentTypeOK', Ordered',
         load' = load, obj' = obj, res' = res, reap' = reap, regressed' = regressed,
         UNCHANGED clock,
         NEW c \in Known, c = cached', Precedes(cached, c), \A v \in Known' : v \in Known,
         rec' = rec \/ rec' = Resting,
         \A r \in Reapers : reaper'[r] = reaper[r] \/ reaper'[r] = "idle"
  PROVE EnvironmentInv'
<1>1. /\ load \in Workloads /\ obj \in Object /\ cached \in Object /\ rec \in Reconcile
      /\ c \in Object /\ Precedes(c, obj)
  BY VersionFacts
<1>2. /\ cached.nonce \in Nat /\ c.nonce \in Nat /\ cached.renewals \in Nat /\ c.renewals \in Nat
      /\ obj.renewals \in Nat /\ obj.observed \in Nat /\ rec.target \in Nat
  BY <1>1, ObjectFields, LoadFacts DEF Reconcile
<1>3. cached.nonce <= c.nonce /\ c.renewals <= obj.renewals /\ cached.renewals <= c.renewals
  BY <1>1 DEF Precedes
<1>4. Observing'
  <2>1. obj'.observed <= cached'.nonce
    BY <1>2, <1>3 DEF EnvironmentInv, Observing
  <2>2. cached'.phase = "Pending" => cached.phase = "Pending"
    BY DEF Precedes
  <2>q. QED
    BY <2>1, <2>2 DEF EnvironmentInv, Observing
<1>5. Reconciling'
  <2>1. CASE rec' = rec
    <3>1. Provisions \/ Resets => cached'.phase # "Pending"
      BY DEF EnvironmentInv, Reconciling, Precedes
    <3>2. Resets => rec.target <= cached'.nonce
      BY <1>2, <1>3 DEF EnvironmentInv, Reconciling
    <3>3. Provisions' <=> Provisions
      BY <2>1 DEF Provisions
    <3>4. Resets' <=> Resets
      BY <2>1 DEF Resets
    <3>5. /\ Provisions => rec.seen.phase = "Provisioning" /\ rec.target = 0 /\ obj.observed = 0
          /\ Resets => rec.target > 0
          /\ Resets => obj.observed > 0 /\ obj.observed <= rec.target
          /\ Resets => rec.seen.phase \notin Early
          /\ Resets /\ rec.seen.phase # "Ready" => obj.phase # "Ready"
          /\ rec.pc = "observed" /\ rec.ready => res.born >= rec.target
      BY DEF EnvironmentInv, Reconciling
    <3>q. QED
      BY <2>1, <3>1, <3>2, <3>3, <3>4, <3>5 DEF Reconciling
  <2>2. CASE rec' = Resting
    BY <2>2, RestingReconciles
  <2>q. QED
    BY <2>1, <2>2
<1>6. Built'
  BY DEF EnvironmentInv, Built, ReadyIsPostWipe, InUse
<1>7. rec'.pc = rec.pc \/ rec'.pc = "idle"
  BY <1>1, NewObjectTyped
<1>8. Expiring'
  <2>1. ASSUME obj.renewals = 0, Expired(cached) PROVE Expired(cached)'
    <3>1. c.renewals = 0 /\ cached.renewals = 0
      BY <1>2, <1>3, <2>1
    <3>2. cached.release => c.release
      BY DEF Precedes
    <3>3. idled' = idled /\ aged' = aged
      BY DEF clock
    <3>q. QED
      BY <2>1, <3>1, <3>2, <3>3 DEF Expired
  <2>2. OnlyARenewalUndoesDraining'
    BY DEF EnvironmentInv, Expiring, OnlyARenewalUndoesDraining
  <2>q. QED
    BY <1>7, <2>1, <2>2 DEF EnvironmentInv, Expiring
<1>9. Tearing'
  <2>1. ~regressed /\ cached.phase \in Ending => cached'.phase \in Ending
    BY DEF Precedes
  <2>2. cached.deleting => cached'.deleting
    BY DEF Precedes
  <2>3. /\ ~regressed /\ obj.phase = "Released" =>
             cached'.phase \in Ending /\ rec'.pc \in {"idle", "released"}
        /\ ~regressed /\ reap.state # "none" =>
             (cached'.deleting \/ cached'.phase \in Ending) /\ rec'.pc \in {"idle", "released"}
    BY <1>7, <2>1, <2>2 DEF EnvironmentInv, Tearing
  <2>4. \A r \in Reapers : reaper'[r] # "idle" => reaper'[r] = reaper[r]
    OBVIOUS
  <2>5. \A r \in Reapers : reaper'[r] # "idle" => reap'.state # "none"
    BY <2>4 DEF EnvironmentInv, Tearing
  <2>6. ~regressed /\ reap.state = "succeeded" => res.state = "absent"
    BY DEF EnvironmentInv, Tearing
  <2>7. \A r \in Reapers : ~regressed /\ reaper'[r] = "done" => res.state = "absent"
    BY <2>4 DEF EnvironmentInv, Tearing
  <2>q. QED
    BY <2>3, <2>5, <2>6, <2>7 DEF Tearing
<1>10. Finalizing'
  <2>1. cached.deleting => cached'.deleting
    BY DEF Precedes
  <2>q. QED
    BY <1>7, <2>1 DEF EnvironmentInv, Finalizing
<1>q. QED
  BY <1>4, <1>5, <1>6, <1>8, <1>9, <1>10 DEF EnvironmentInv

LEMMA DeliverStep ==
  ASSUME EnvironmentInv, Deliver PROVE EnvironmentInv'
<1>1. /\ events # <<>> /\ cached' = Head(events) /\ events' = Tail(events)
      /\ load' = load /\ obj' = obj /\ rec' = rec /\ res' = res /\ reap' = reap
      /\ reaper' = reaper /\ regressed' = regressed /\ faults' = faults
      /\ idled' = idled /\ aged' = aged
  BY DEF Deliver, clock
<1>2. /\ load \in Workloads /\ obj \in Object /\ cached \in Object /\ events \in Seq(Object)
      /\ Ordered /\ load.lag \in Nat
  BY VersionFacts, LoadFacts DEF EnvironmentInv, EnvironmentTypeOK
<1>3. /\ Len(events) \in Nat /\ Len(events) >= 1
      /\ events' \in Seq(Object) /\ Len(events') = Len(events) - 1
      /\ Head(events) = events[1]
      /\ \A i \in 1 .. Len(events') : events'[i] = events[i + 1]
  BY <1>1, <1>2, HeadTailProperties, EmptySeq, LenProperties
<1>4. PICK c : c = events[1]
  OBVIOUS
<1>5. c = cached' /\ 1 \in 1 .. Len(events)
  BY <1>1, <1>3, <1>4
<1>6. c \in Known /\ c \in Object /\ Precedes(cached, c)
  BY <1>2, <1>4, <1>5, ElementOfSeq DEF Known, Ordered
<1>7. \A i \in 1 .. Len(events') : i + 1 \in 1 .. Len(events) /\ events'[i] = events[i + 1]
  BY <1>3
<1>8. \A v \in Known' : v \in Known
  BY <1>5, <1>6, <1>7 DEF Known
<1>9. Ordered'
  <2>1. ASSUME NEW v, NEW w, Precedes(v, w) PROVE Precedes(v, w)'
    BY <1>1, <2>1 DEF Precedes
  <2>2. ASSUME NEW i \in 1 .. Len(events') PROVE Precedes(cached, events[i])'
    <3>1. PICK e : e = events[i + 1]
      OBVIOUS
    <3>2. i + 1 \in 1 .. Len(events) /\ 1 < i + 1
      BY <1>3, <1>7
    <3>3. Precedes(c, e)
      BY <1>2, <1>4, <1>5, <3>1, <3>2 DEF Ordered
    <3>4. Precedes(c, e)'
      BY <2>1, <3>3
    <3>q. QED
      BY <1>5, <1>7, <3>1, <3>4
  <2>3. ASSUME NEW i \in 1 .. Len(events'), NEW j \in 1 .. Len(events'), i < j
        PROVE Precedes(events[i], events[j])'
    <3>1. PICK d, e : d = events[i + 1] /\ e = events[j + 1]
      OBVIOUS
    <3>2. i + 1 \in 1 .. Len(events) /\ j + 1 \in 1 .. Len(events) /\ i + 1 < j + 1
      BY <1>3, <1>7, <2>3
    <3>3. Precedes(d, e)
      BY <1>2, <3>1, <3>2 DEF Ordered
    <3>4. Precedes(d, e)'
      BY <2>1, <3>3
    <3>q. QED
      BY <1>7, <3>1, <3>4
  <2>4. ASSUME NEW v \in Known' PROVE Precedes(v, obj)'
    <3>1. Precedes(v, obj)
      BY <1>2, <1>8 DEF Ordered
    <3>q. QED
      BY <1>1, <3>1 DEF Precedes
  <2>5. obj' = IF events' = <<>> THEN cached' ELSE events'[Len(events')]
    <3>1. obj = events[Len(events)]
      BY <1>1, <1>2 DEF Ordered
    <3>2. CASE events' = <<>>
      <4>1. Len(events) = 1
        BY <1>3, <3>2, EmptySeq
      <4>q. QED
        BY <1>1, <1>4, <1>5, <3>1, <3>2, <4>1
    <3>3. CASE events' # <<>>
      <4>1. Len(events') \in 1 .. Len(events')
        BY <1>3, <3>3, EmptySeq
      <4>2. events'[Len(events')] = events[Len(events') + 1] /\ Len(events') + 1 = Len(events)
        BY <1>3, <4>1
      <4>q. QED
        BY <1>1, <3>1, <3>3, <4>2
    <3>q. QED
      BY <3>2, <3>3
  <2>6. Len(events') <= load'.lag
    BY <1>1, <1>2, <1>3 DEF Ordered
  <2>q. QED
    BY <2>2, <2>3, <2>4, <2>5, <2>6 DEF Ordered
<1>10. EnvironmentTypeOK'
  BY <1>1, <1>3, <1>5, <1>6, SameTypes DEF EnvironmentInv, EnvironmentTypeOK, Reap
<1>q. QED
  BY <1>1, <1>5, <1>6, <1>8, <1>9, <1>10, Forward DEF clock

LEMMA CrashStep ==
  ASSUME EnvironmentInv, NEW r \in Reapers, Crash(r) PROVE EnvironmentInv'
<1>1. /\ rec' = Resting /\ cached' = obj /\ events' = <<>>
      /\ reaper' = [reaper EXCEPT ![r] = "idle"]
      /\ load' = load /\ obj' = obj /\ res' = res /\ reap' = reap /\ regressed' = regressed
      /\ idled' = idled /\ aged' = aged /\ Fault
  BY DEF Crash, clock
<1>2. /\ load \in Workloads /\ obj \in Object /\ obj \in Known /\ Precedes(obj, obj)
      /\ Precedes(cached, obj) /\ Resting \in Reconcile
      /\ reaper \in [Reapers -> {"idle", "claimed", "done", "retry"}]
      /\ faults \in 0 .. load.faults /\ load.faults \in Nat /\ load.lag \in Nat
  BY VersionFacts, NewObjectTyped, LoadFacts DEF EnvironmentInv, EnvironmentTypeOK
<1>3. PICK c : c = obj
  OBVIOUS
<1>4. events' \in Seq(Object) /\ Len(events') = 0
  BY <1>1, EmptySeq
<1>5. Known' = {c}
  BY <1>1, <1>3, <1>4 DEF Known
<1>6. Ordered'
  <2>1. Precedes(c, c)'
    BY <1>1, <1>2, <1>3 DEF Precedes
  <2>2. 1 .. Len(events') = {}
    BY <1>4
  <2>3. \A v \in Known' : Precedes(v, obj)'
    BY <1>1, <1>3, <1>5, <2>1
  <2>4. Len(events') <= load'.lag
    BY <1>1, <1>2, <1>4
  <2>q. QED
    BY <1>1, <2>2, <2>3, <2>4 DEF Ordered
<1>7. EnvironmentTypeOK'
  <2>1. faults' \in 0 .. load.faults
    BY <1>1, <1>2 DEF Fault
  <2>2. reaper' \in [Reapers -> {"idle", "claimed", "done", "retry"}]
    BY <1>1, <1>2
  <2>q. QED
    BY <1>1, <1>2, <1>4, <2>1, <2>2, SameTypes DEF EnvironmentInv, EnvironmentTypeOK, Reap
<1>8. \A q \in Reapers : reaper'[q] = reaper[q] \/ reaper'[q] = "idle"
  BY <1>1, <1>2
<1>9. c \in Known /\ c = cached' /\ Precedes(cached, c) /\ \A v \in Known' : v \in Known
  BY <1>1, <1>2, <1>3, <1>5
<1>q. QED
  BY <1>1, <1>6, <1>7, <1>8, <1>9, Forward DEF clock
-----------------------------------------------------------------------------
\* A Reaper and the clock leave the versions and the reconcile alone.
LEMMA Elsewhere ==
  ASSUME EnvironmentInv, UNCHANGED <<load, obj, cached, events, rec, regressed>>
  PROVE /\ Ordered' /\ Observing'
        /\ res'.born = res.born => Reconciling'
        /\ OnlyARenewalUndoesDraining'
<1>1. /\ load' = load /\ obj' = obj /\ cached' = cached /\ events' = events /\ rec' = rec
      /\ regressed' = regressed
  OBVIOUS
<1>2. Ordered'
  BY <1>1 DEF EnvironmentInv, Ordered, Precedes, Known
<1>3. Observing'
  BY <1>1 DEF EnvironmentInv, Observing, Known
<1>4. res'.born = res.born => Reconciling'
  BY <1>1 DEF EnvironmentInv, Reconciling, Provisions, Resets
<1>5. OnlyARenewalUndoesDraining'
  BY <1>1 DEF EnvironmentInv, Expiring, OnlyARenewalUndoesDraining
<1>q. QED
  BY <1>2, <1>3, <1>4, <1>5

\* A step of the teardown: resources only go, and a row succeeds when they are gone.
LEMMA TeardownStep ==
  ASSUME EnvironmentInv, EnvironmentTypeOK',
         UNCHANGED <<load, obj, cached, events, rec, regressed>>, UNCHANGED clock,
         res'.born = res.born, res'.stamp = res.stamp,
         res.state = "absent" => res'.state = "absent",
         reap.state = "none" <=> reap'.state = "none",
         \A r \in Reapers : reaper'[r] # "idle" => reap'.state # "none",
         ~regressed /\ reap'.state = "succeeded" => res'.state = "absent",
         \A r \in Reapers : ~regressed /\ reaper'[r] = "done" => res'.state = "absent"
  PROVE EnvironmentInv'
<1>1. /\ load' = load /\ obj' = obj /\ cached' = cached /\ events' = events /\ rec' = rec
      /\ regressed' = regressed /\ idled' = idled /\ aged' = aged
  BY DEF clock
<1>2. Ordered' /\ Observing' /\ Reconciling' /\ OnlyARenewalUndoesDraining'
  BY Elsewhere
<1>3. Built'
  BY <1>1 DEF EnvironmentInv, Built, ReadyIsPostWipe, InUse
<1>4. Expiring'
  BY <1>1, <1>2 DEF EnvironmentInv, Expiring, Expired
<1>5. Tearing'
  BY <1>1 DEF EnvironmentInv, Tearing
<1>6. Finalizing'
  BY <1>1 DEF EnvironmentInv, Finalizing, Known
<1>q. QED
  BY <1>2, <1>3, <1>4, <1>5, <1>6 DEF EnvironmentInv

LEMMA ReaperSteps ==
  ASSUME EnvironmentInv, NEW r \in Reapers, ReaperStep(r) \/ ReleaseFails(r)
  PROVE EnvironmentInv'
<1>1. /\ load \in Workloads /\ obj \in Object /\ res \in Resources /\ reap \in Reap
      /\ reaper \in [Reapers -> {"idle", "claimed", "done", "retry"}]
      /\ reap.state = "claimed" <=> reap.holder # NoReaper
      /\ reap.leased => reap.state = "claimed"
      /\ faults \in 0 .. load.faults /\ load.faults \in Nat
      /\ NoReaper \notin Reapers
  BY LoadFacts, EnvironmentAssumption DEF EnvironmentInv, EnvironmentTypeOK
<1>2. Tearing
  BY DEF EnvironmentInv
<1>3. ReaperKeeps
  BY DEF ReaperStep, ReleaseFails, Claim, Release, Complete
<1>4. /\ UNCHANGED <<load, obj, cached, events, rec, regressed>> /\ UNCHANGED clock
      /\ idled' = idled /\ aged' = aged
      /\ load' = load /\ obj' = obj /\ cached' = cached /\ events' = events /\ rec' = rec
      /\ regressed' = regressed
  BY <1>3 DEF ReaperKeeps, clock
<1>5. ASSUME faults' \in 0 .. load.faults, res' \in Resources, reap' \in Reap,
             reap'.state = "claimed" <=> reap'.holder # NoReaper,
             reap'.leased => reap'.state = "claimed",
             reaper' \in [Reapers -> {"idle", "claimed", "done", "retry"}]
      PROVE EnvironmentTypeOK'
  BY <1>4, <1>5, SameTypes DEF EnvironmentInv, EnvironmentTypeOK, Reap
<1>6. CASE Claim(r)
  <2>1. /\ reap' = [state |-> "claimed", holder |-> r, leased |-> TRUE]
        /\ reaper' = [reaper EXCEPT ![r] = "claimed"] /\ faults' = faults /\ res' = res
        /\ reap.state \in {"queued", "claimed"}
    BY <1>6 DEF Claim, Claimable, Sound
  <2>2. /\ reap' \in Reap /\ reap'.state = "claimed" /\ reap'.holder = r
    BY <2>1 DEF Reap
  <2>3. /\ reaper' \in [Reapers -> {"idle", "claimed", "done", "retry"}]
        /\ \A q \in Reapers : reaper'[q] = "done" => reaper[q] = "done"
    BY <1>1, <2>1
  <2>4. EnvironmentTypeOK'
    BY <1>1, <1>5, <2>1, <2>2, <2>3
  <2>5. \A q \in Reapers : ~regressed /\ reaper'[q] = "done" => res'.state = "absent"
    BY <1>2, <2>1, <2>3 DEF Tearing
  <2>q. QED
    BY <1>4, <2>1, <2>2, <2>4, <2>5, TeardownStep
<1>7. CASE Release(r)
  <2>1. PICK s : s = IF res.state = "absent" \/ provider = "node" THEN "absent" ELSE "terminating"
    OBVIOUS
  <2>2. res' = [res EXCEPT !.state = s]
    BY <1>7, <2>1 DEF Release
  <2>3. /\ reaper' = [reaper EXCEPT ![r] = IF Released THEN "done" ELSE "retry"]
        /\ reaper[r] = "claimed" /\ reap' = reap /\ faults' = faults
    BY <1>7 DEF Release, Sound
  <2>4. /\ res' \in Resources /\ res'.state = s /\ res'.born = res.born /\ res'.stamp = res.stamp
    BY <1>1, <2>1, <2>2 DEF Resources
  <2>5. /\ reaper' \in [Reapers -> {"idle", "claimed", "done", "retry"}]
        /\ \A q \in Reapers : reaper'[q] = "done" => reaper[q] = "done" \/ s = "absent"
        /\ \A q \in Reapers : reaper'[q] # "idle" => reaper[q] # "idle"
    BY <1>1, <2>1, <2>3 DEF Released
  <2>6. EnvironmentTypeOK'
    BY <1>1, <1>5, <2>3, <2>4, <2>5
  <2>7. res.state = "absent" => res'.state = "absent"
    BY <2>1, <2>4
  <2>8. \A q \in Reapers : ~regressed /\ reaper'[q] = "done" => res'.state = "absent"
    BY <1>2, <2>4, <2>5, <2>7 DEF Tearing
  <2>9. \A q \in Reapers : reaper'[q] # "idle" => reap'.state # "none"
    BY <1>2, <2>3, <2>5 DEF Tearing
  <2>10. ~regressed /\ reap'.state = "succeeded" => res'.state = "absent"
    BY <1>2, <2>3, <2>7 DEF Tearing
  <2>q. QED
    BY <1>4, <2>3, <2>4, <2>6, <2>7, <2>8, <2>9, <2>10, TeardownStep
<1>8. CASE ReleaseFails(r)
  <2>1. /\ reaper' = [reaper EXCEPT ![r] = "retry"] /\ reaper[r] = "claimed"
        /\ res' = res /\ reap' = reap /\ Fault
    BY <1>8 DEF ReleaseFails
  <2>2. faults' \in 0 .. load.faults
    BY <1>1, <2>1 DEF Fault
  <2>3. /\ reaper' \in [Reapers -> {"idle", "claimed", "done", "retry"}]
        /\ \A q \in Reapers : reaper'[q] = "done" => reaper[q] = "done"
        /\ \A q \in Reapers : reaper'[q] # "idle" => reaper[q] # "idle"
    BY <1>1, <2>1
  <2>4. EnvironmentTypeOK'
    BY <1>1, <1>5, <2>1, <2>2, <2>3
  <2>5. /\ \A q \in Reapers : ~regressed /\ reaper'[q] = "done" => res'.state = "absent"
        /\ \A q \in Reapers : reaper'[q] # "idle" => reap'.state # "none"
        /\ ~regressed /\ reap'.state = "succeeded" => res'.state = "absent"
    BY <1>2, <2>1, <2>3 DEF Tearing
  <2>q. QED
    BY <1>4, <2>1, <2>4, <2>5, TeardownStep
<1>9. CASE Complete(r)
  <2>1. PICK done \in BOOLEAN : done <=> reaper[r] = "done"
    OBVIOUS
  <2>2. PICK p : p = [state |-> IF done THEN "succeeded" ELSE "queued",
                      holder |-> NoReaper, leased |-> FALSE]
    OBVIOUS
  <2>3. /\ reaper[r] \in {"done", "retry"} /\ (reap' = reap \/ reap' = p)
        /\ reaper' = [reaper EXCEPT ![r] = "idle"] /\ res' = res /\ faults' = faults
    BY <1>9, <2>1, <2>2 DEF Complete, Completed, Sound
  <2>4. /\ p \in Reap /\ p.state = (IF done THEN "succeeded" ELSE "queued")
        /\ p.holder = NoReaper /\ ~p.leased
    BY <2>2 DEF Reap
  <2>5. /\ reaper' \in [Reapers -> {"idle", "claimed", "done", "retry"}]
        /\ \A q \in Reapers : reaper'[q] # "idle" => reaper'[q] = reaper[q]
    BY <1>1, <2>3
  <2>6. EnvironmentTypeOK'
    BY <1>1, <1>5, <2>3, <2>4, <2>5
  <2>7. reap.state # "none"
    BY <1>2, <2>3 DEF Tearing
  <2>8. reap'.state # "none"
    BY <2>3, <2>4, <2>7
  <2>9. ~regressed /\ reap'.state = "succeeded" => res'.state = "absent"
    BY <1>2, <2>1, <2>3, <2>4 DEF Tearing
  <2>10. \A q \in Reapers : ~regressed /\ reaper'[q] = "done" => res'.state = "absent"
    BY <1>2, <2>3, <2>5 DEF Tearing
  <2>q. QED
    BY <1>4, <2>3, <2>6, <2>7, <2>8, <2>9, <2>10, TeardownStep
<1>q. QED
  BY <1>6, <1>7, <1>8, <1>9 DEF ReaperStep
LEMMA PassingStep ==
  ASSUME EnvironmentInv, LeaseLapses \/ NamespaceGone \/ IdleElapses \/ LifetimeElapses
  PROVE EnvironmentInv'
<1>1. /\ load \in Workloads /\ obj \in Object /\ res \in Resources /\ reap \in Reap
      /\ reaper \in [Reapers -> {"idle", "claimed", "done", "retry"}]
      /\ reap.state = "claimed" <=> reap.holder # NoReaper
      /\ reap.leased => reap.state = "claimed"
      /\ faults \in 0 .. load.faults /\ load.faults \in Nat
      /\ idled \in 0 .. load.renewals + 1 /\ load.renewals \in Nat /\ aged \in BOOLEAN
  BY LoadFacts DEF EnvironmentInv, EnvironmentTypeOK
<1>2. Tearing
  BY DEF EnvironmentInv
<1>3. CASE LeaseLapses
  <2>1. /\ UNCHANGED <<load, obj, cached, events, rec, regressed>> /\ UNCHANGED clock
        /\ res' = res /\ reaper' = reaper /\ reap.state = "claimed"
        /\ reap' = [reap EXCEPT !.leased = FALSE]
    BY <1>3 DEF LeaseLapses
  <2>2. /\ reap' \in Reap /\ reap'.state = reap.state /\ reap'.holder = reap.holder
        /\ ~reap'.leased
    BY <1>1, <2>1 DEF Reap
  <2>3. faults' \in 0 .. load.faults
    BY <1>1, <1>3 DEF LeaseLapses, Sound, Fault
  <2>4. EnvironmentTypeOK'
    BY <1>1, <2>1, <2>2, <2>3, SameTypes DEF EnvironmentInv, EnvironmentTypeOK, Reap, clock
  <2>5. /\ \A r \in Reapers : reaper'[r] # "idle" => reap'.state # "none"
        /\ \A r \in Reapers : ~regressed /\ reaper'[r] = "done" => res'.state = "absent"
        /\ ~regressed /\ reap'.state = "succeeded" => res'.state = "absent"
    BY <1>2, <2>1, <2>2 DEF Tearing
  <2>q. QED
    BY <2>1, <2>2, <2>4, <2>5, TeardownStep
<1>4. CASE NamespaceGone
  <2>1. /\ UNCHANGED <<load, obj, cached, events, rec, regressed>> /\ UNCHANGED clock
        /\ reap' = reap /\ reaper' = reaper /\ faults' = faults
        /\ res' = [res EXCEPT !.state = "absent"]
    BY <1>4 DEF NamespaceGone
  <2>2. /\ res' \in Resources /\ res'.state = "absent" /\ res'.born = res.born
        /\ res'.stamp = res.stamp
    BY <1>1, <2>1 DEF Resources
  <2>3. EnvironmentTypeOK'
    BY <1>1, <2>1, <2>2, SameTypes DEF EnvironmentInv, EnvironmentTypeOK, Reap, clock
  <2>4. /\ \A r \in Reapers : reaper'[r] # "idle" => reap'.state # "none"
    BY <1>2, <2>1 DEF Tearing
  <2>q. QED
    BY <2>1, <2>2, <2>3, <2>4, TeardownStep
<1>5. CASE IdleElapses \/ LifetimeElapses
  <2>1. /\ load' = load /\ obj' = obj /\ cached' = cached /\ events' = events /\ rec' = rec
        /\ regressed' = regressed /\ res' = res /\ reap' = reap /\ reaper' = reaper
        /\ faults' = faults
    BY <1>5 DEF IdleElapses, LifetimeElapses
  <2>2. obj.renewals \in 0 .. load.renewals
    BY <1>1 DEF Object
  <2>3. /\ idled' \in 0 .. load.renewals + 1 /\ aged' \in BOOLEAN
        /\ idled' >= idled /\ (aged => aged')
    <3>1. CASE IdleElapses
      BY <1>1, <2>2, <3>1 DEF IdleElapses
    <3>2. CASE LifetimeElapses
      BY <1>1, <3>2 DEF LifetimeElapses
    <3>q. QED
      BY <1>5, <3>1, <3>2
  <2>4. EnvironmentTypeOK'
    BY <1>1, <2>1, <2>3, SameTypes DEF EnvironmentInv, EnvironmentTypeOK, Reap
  <2>5. Ordered' /\ Observing' /\ Reconciling' /\ OnlyARenewalUndoesDraining'
    BY <2>1, Elsewhere
  <2>6. Built'
    BY <2>1 DEF EnvironmentInv, Built, ReadyIsPostWipe, InUse
  <2>7. Expired(cached) => Expired(cached)'
    <3>1. cached.renewals \in Nat /\ idled \in Nat /\ idled' \in Nat
      BY <1>1, <2>3, VersionFacts, ObjectFields
    <3>q. QED
      BY <2>1, <2>3, <3>1 DEF Expired
  <2>8. Expiring'
    BY <2>1, <2>5, <2>7 DEF EnvironmentInv, Expiring
  <2>9. Tearing' /\ Finalizing'
    BY <2>1 DEF EnvironmentInv, Tearing, Finalizing, Known
  <2>q. QED
    BY <2>4, <2>5, <2>6, <2>8, <2>9 DEF EnvironmentInv
<1>q. QED
  BY <1>3, <1>4, <1>5

-----------------------------------------------------------------------------
LEMMA Initially ==
  ASSUME Init PROVE EnvironmentInv
<1>1. /\ load \in Workloads
      /\ obj = NewObject /\ cached = NewObject /\ events = <<>> /\ rec = Resting
      /\ res = [state |-> "absent", stamp |-> 0, born |-> 0]
      /\ reap = [state |-> "none", holder |-> NoReaper, leased |-> FALSE]
      /\ reaper = [r \in Reapers |-> "idle"]
      /\ idled = 0 /\ aged = FALSE /\ regressed = FALSE /\ faults = load.faults
  BY DEF Init
<1>2. /\ NewObject \in Object /\ Resting \in Reconcile /\ Resting.pc = "idle"
      /\ load.resets \in Nat /\ load.renewals \in Nat /\ load.faults \in Nat /\ load.lag \in Nat
  BY <1>1, NewObjectTyped, LoadFacts
<1>3. events \in Seq(Object) /\ Len(events) = 0
  BY <1>1, EmptySeq
<1>4. res \in Resources /\ reap \in Reap
  BY <1>1, <1>2 DEF Resources, Reap
<1>5. EnvironmentTypeOK
  <2>1. idled \in 0 .. load.renewals + 1 /\ faults \in 0 .. load.faults
    BY <1>1, <1>2
  <2>2. reap.state = "none" /\ reap.holder = NoReaper /\ reap.leased = FALSE
    BY <1>1
  <2>3. obj \in Object /\ cached \in Object /\ rec \in Reconcile
    BY <1>1, <1>2
  <2>4. aged \in BOOLEAN /\ regressed \in BOOLEAN
    BY <1>1
  <2>5. reaper \in [Reapers -> {"idle", "claimed", "done", "retry"}]
    BY <1>1
  <2>q. QED
    BY <1>1, <1>3, <1>4, <2>1, <2>2, <2>3, <2>4, <2>5 DEF EnvironmentTypeOK
<1>6. Known = {obj}
  BY <1>1, <1>3 DEF Known
<1>7. Ordered
  <2>1. Precedes(obj, obj)
    BY <1>1, <1>2, PrecedesItself
  <2>2. 1 .. Len(events) = {}
    BY <1>3
  <2>3. \A v \in Known : Precedes(v, obj)
    BY <1>6, <2>1
  <2>q. QED
    BY <1>1, <1>2, <1>3, <2>2, <2>3 DEF Ordered
<1>8. /\ obj.phase = "Pending" /\ obj.op = "" /\ obj.observed = 0 /\ obj.nonce = 0
      /\ ~obj.finalizer /\ obj.live /\ cached = obj
  BY <1>1 DEF NewObject
<1>8a. obj.observed = 0 /\ obj.nonce = 0 /\ cached.nonce = 0
  BY <1>8
<1>9. Observing
  <2>1. obj.observed <= cached.nonce /\ ~(obj.observed > 0)
    BY <1>8a
  <2>2. \A v \in Known : v.op # "Resetting" /\ v.phase = "Pending"
    BY <1>6, <1>8
  <2>q. QED
    BY <2>1, <2>2 DEF Observing
<1>10. Reconciling /\ Built /\ Expiring
  <2>1. rec.pc = "idle" /\ res.state = "absent" /\ res.born = 0 /\ ~regressed
    BY <1>1, <1>2
  <2>2. Reconciling
    BY <2>1 DEF Reconciling, Provisions, Resets
  <2>3. res.born <= obj.nonce
    <3>1. res.born = 0 /\ obj.nonce = 0
      BY <1>8, <2>1
    <3>q. QED
      BY <3>1
  <2>4. Built
    BY <1>8, <2>1, <2>3 DEF Built, ReadyIsPostWipe, InUse
  <2>5. Expiring
    BY <1>8, <2>1 DEF Expiring, OnlyARenewalUndoesDraining
  <2>q. QED
    BY <2>2, <2>4, <2>5
<1>11. Tearing /\ Finalizing
  BY <1>1, <1>2, <1>8 DEF Tearing, Finalizing
<1>q. QED
  BY <1>5, <1>7, <1>9, <1>10, <1>11 DEF EnvironmentInv

LEMMA ControllerSteps ==
  ASSUME EnvironmentInv, Controller PROVE EnvironmentInv'
BY AddFinalizerStep, DrainStep, RejectLifecycleStep, StartProvisionStep, StartResetStep,
   ObserveResetRequestStep, CallStep, ApplyObservationStep, EnqueueReapStep,
   MarkReleasedStep, DeleteReleasedStep, RemoveFinalizerStep DEF Controller

LEMMA Inductive ==
  ASSUME EnvironmentInv, [Next]_vars PROVE EnvironmentInv'
<1>1. CASE UNCHANGED vars
  BY <1>1, Stutter
<1>2. CASE \/ RenewActivity \/ RequestReset \/ ReleaseAdminEnvironment
           \/ RequestDeletion \/ DeleteEnvironmentProjection
  BY <1>2, ServerStep
<1>3. CASE Controller
  BY <1>3, ControllerSteps
<1>4. CASE ResetTimesOut \/ ProviderFailure
  BY <1>4, FailureStep
<1>5. CASE WriteFails
  BY <1>5, WriteFailsStep
<1>6. CASE Deliver
  BY <1>6, DeliverStep
<1>7. ASSUME NEW r \in Reapers, ReaperStep(r) \/ ReleaseFails(r) PROVE EnvironmentInv'
  BY <1>7, ReaperSteps
<1>8. ASSUME NEW r \in Reapers, Crash(r) PROVE EnvironmentInv'
  BY <1>8, CrashStep
<1>9. CASE LeaseLapses \/ NamespaceGone \/ IdleElapses \/ LifetimeElapses
  BY <1>9, PassingStep
<1>q. QED
  BY <1>1, <1>2, <1>3, <1>4, <1>5, <1>6, <1>7, <1>8, <1>9 DEF Next

\* The invariant says what the properties ask for.
LEMMA Promised ==
  ASSUME EnvironmentInv
  PROVE EnvironmentInvariant /\ OnlyARenewalUndoesDraining /\ ReadyIsPostWipe
<1>1. /\ load \in Workloads /\ obj \in Object /\ obj.phase \in Phases
      /\ Precedes(cached, obj)
  BY VersionFacts, ObjectFields
<1>2. NothingOutlivesItsObject
  BY DEF EnvironmentInv, Finalizing, NothingOutlivesItsObject
<1>3. TeardownIsAnnounced
  BY <1>1 DEF EnvironmentInv, Tearing, TeardownIsAnnounced, Precedes, Ending
<1>4. ReapedMeansAbsent
  BY DEF EnvironmentInv, Tearing, ReapedMeansAbsent
<1>5. OnlyARenewalUndoesDraining /\ ReadyIsPostWipe
  BY DEF EnvironmentInv, Expiring, Built
<1>q. QED
  BY <1>2, <1>3, <1>4, <1>5 DEF EnvironmentInvariant, EnvironmentInv

(* Teardown is announced, complete and final, and no object disappears     *)
(* before its resources: the finalizer, the reap queue and the Reaper's    *)
(* reports do what they are there for, however far the copy lags.          *)
THEOREM NothingOutlives == Spec => []EnvironmentInvariant
<1>1. Spec => []EnvironmentInv
  BY Initially, Inductive, PTL DEF Spec
<1>q. QED
  BY <1>1, Promised, PTL

(* A status patch, which no resource version protects, overwrites Draining *)
(* only after the idle lease was renewed: UpdateStatus and CanTransition.  *)
THEOREM DrainingStands == Spec => []OnlyARenewalUndoesDraining
<1>1. Spec => []EnvironmentInv
  BY Initially, Inductive, PTL DEF Spec
<1>q. QED
  BY <1>1, Promised, PTL

(* A ready environment was built after every reset it reports: the adopted *)
(* generation, the stamp on the resources and the order of the two writes. *)
THEOREM ReadyAfterTheWipe == Spec => []ReadyIsPostWipe
<1>1. Spec => []EnvironmentInv
  BY Initially, Inductive, PTL DEF Spec
<1>q. QED
  BY <1>1, Promised, PTL

-----------------------------------------------------------------------------
(* The resources at the provider, request by request (ProviderResources).  *)
(*                                                                         *)
(* A request acts on what the provider has when it arrives, which is not   *)
(* what its call found: operations end, other environments take subnets,   *)
(* Reapers overlap.  The invariant says what a call may rely on at each of *)
(* its requests, in terms of what the provider has now.                    *)

NodeBuilding == {"acl", "network", "create_network", "project", "image", "profile",
                 "instance", "created", "observe"}
NodeDeleting == {"stop", "stopping", "remove", "removing",
                 "del_image", "del_profile", "del_project", "del_network", "del_acl"}
ClusterBuilding == {"namespace", "access", "vcluster", "policy",
                    "plane", "kubeconfig", "terminal", "observe_terminal"}
ClusterDeleting == {"del_vcluster", "del_namespace"}
Tears == {"delete"} \cup NodeDeleting \cup ClusterDeleting

\* What a call may rely on at a step, whatever happens between its requests.
\* The Controller builds and deletes for a provision or a reset; a Reaper only
\* deletes, and the Controller has no call then.
Entitled(c, o) ==
  /\ IF c = ControllerCaller
     THEN goal \in {"provision", "reset"} /\ o.gen <= resets /\ (o.pc \in Tears => o.gen > 0)
     ELSE goal \in {"release", "released"} /\ o.gen = 0 /\ o.pc \in Tears
  /\ o.pc \in {"stopping", "removing", "created"} => o.at \in Nodes
  /\ o.pc \in NodeBuilding \cup NodeDeleting => kind = "node"
  /\ o.pc \in ClusterBuilding \cup ClusterDeleting => kind # "node"

AtNodes(o) ==
  /\ o.pc \in {"network", "create_network"} => incus.acl
  /\ o.pc = "create_network" => incus.net = 0
  /\ o.pc \in {"image", "profile", "instance", "created", "observe"} => incus.project
  /\ o.pc \in NodeBuilding /\ incus.project => incus.stamp = o.gen
  /\ o.pc \in {"del_network", "del_acl"} => ~incus.project
  /\ o.pc = "del_acl" => incus.net = 0

\* The nodes a call has been over have no operation but the start it asked for.
Passed(o, n) == (o.pc \in {"instance", "created"} /\ n < o.at) \/ o.pc = "observe"
AtJobs(o) == \A n \in Nodes : Passed(o, n) => job[n] \in {"none", "start"}

\* A namespace that a reset takes down is older than the reset.
AtCluster(c, o) ==
  c = ControllerCaller =>
    /\ k8s.stamp <= o.gen
    /\ k8s.state = "terminating" => k8s.stamp < o.gen
    /\ o.pc \in ClusterBuilding =>
         k8s.state # "terminating" /\ (k8s.state = "active" => k8s.stamp = o.gen)
    /\ o.pc \in {"plane", "kubeconfig", "terminal"} /\ k8s.state = "active" => k8s.policy
    /\ o.pc = "terminal" /\ k8s.state = "active" => k8s.secret
    /\ o.pc \in ClusterDeleting /\ k8s.state # "absent" => k8s.stamp < o.gen

Fits(c, o) ==
  o.pc # "idle" => Entitled(c, o) /\ AtNodes(o) /\ AtJobs(o) /\ AtCluster(c, o)

CallsPart == \A c \in Callers : Fits(c, call[c])

GoalPart ==
  /\ goal = "provision" => resets = 0
  /\ goal = "reset" => resets > 0

\* An environment has the resources of one provider.
KindPart ==
  /\ kind = "node" => k8s = NoNamespace
  /\ kind # "node" => /\ incus = NoIncus
                      /\ \A n \in Nodes : inst[n] = NoInstance /\ job[n] = "none"

\* The order in which the pieces of a node environment come and go.
IncusPart ==
  /\ ~incus.project => ~incus.image /\ ~incus.profile /\ incus.stamp = 0
  /\ incus.net # 0 => incus.acl
  /\ incus.stamp <= resets

InstancePart ==
  \A n \in Nodes : inst[n].state # "none" =>
    /\ incus.project /\ incus.profile /\ incus.net # 0 /\ inst[n].addr = incus.net
    /\ incus.stamp <= inst[n].born /\ inst[n].born <= resets

ClusterPart ==
  /\ k8s.state = "active" /\ k8s.terminal # "none" => k8s.policy /\ k8s.secret
  /\ k8s.state = "absent" => k8s.terminal = "none"
  /\ k8s.stamp <= resets
  /\ k8s.terminal # "none" => k8s.stamp <= k8s.born /\ k8s.born <= resets
  /\ k8s.state = "terminating" /\ goal \notin {"release", "released"} => k8s.stamp < resets

\* What is ready stays what was built.
ReadyPart ==
  goal = "ready" =>
    IF kind = "node"
    THEN \A n \in Nodes : /\ inst[n].state # "none" /\ inst[n].born = resets
                          /\ job[n] \in {"none", "start"}
    ELSE k8s.state = "active" /\ k8s.terminal # "none" /\ k8s.born = resets

Bare == incus = NoIncus /\ ~Populated /\ k8s.state = "absent"
GonePart == goal = "released" => Bare

WorldPart == KindPart /\ IncusPart /\ InstancePart /\ ClusterPart /\ GoalPart
ResourceInv ==
  ProviderTypeOK /\ WorldPart /\ CallsPart /\ ReadyPart /\ GonePart

-----------------------------------------------------------------------------
(* A caller's record, and what follows from the invariant for it.          *)

LEMMA CallHere ==
  ASSUME ResourceInv, NEW c \in Callers, ~At(c, "idle")
  PROVE  /\ call[c] \in Call /\ Entitled(c, call[c]) /\ AtNodes(call[c]) /\ AtJobs(call[c])
         /\ AtCluster(c, call[c])
         /\ call \in [Callers -> Call]
BY DEF ResourceInv, ProviderTypeOK, CallsPart, Fits, At

LEMMA RestFits ==
  ASSUME NEW c \in Callers
  PROVE  NoCall \in Call /\ Fits(c, NoCall)'
<1>1. NoCall \in Call
  BY ProviderAssumption DEF NoCall, Call, Steps, Generations, Nodes, ProviderAssumption
<1> QED
  BY <1>1 DEF NoCall, Fits

LEMMA GotoMoves ==
  ASSUME call \in [Callers -> Call], NEW c \in Callers, NEW pc \in Steps, Goto(c, pc)
  PROVE  \E o \in Call : /\ call' = [call EXCEPT ![c] = o]
                         /\ o.pc = pc /\ o.gen = call[c].gen /\ o.at = call[c].at
<1> DEFINE o == [call[c] EXCEPT !.pc = pc]
<1>1. o \in Call /\ o.pc = pc /\ o.gen = call[c].gen /\ o.at = call[c].at
  BY DEF Call
<1>2. call' = [call EXCEPT ![c] = o]
  BY DEF Goto
<1> QED
  BY <1>1, <1>2

LEMMA LoopMoves ==
  ASSUME call \in [Callers -> Call], NEW c \in Callers, NEW pc \in Steps, Loop(c, pc)
  PROVE  \E o \in Call : /\ call' = [call EXCEPT ![c] = o]
                         /\ o.pc = pc /\ o.gen = call[c].gen /\ o.at = 1
<1> DEFINE o == [call[c] EXCEPT !.pc = pc, !.at = 1, !.ops = {}]
<1>0. 1 \in 1 .. NodeCount + 1
  BY ProviderAssumption DEF ProviderAssumption
<1>1. o \in Call /\ o.pc = pc /\ o.gen = call[c].gen /\ o.at = 1
  BY <1>0 DEF Call
<1>2. call' = [call EXCEPT ![c] = o]
  BY DEF Loop
<1> QED
  BY <1>1, <1>2

LEMMA NextNodeMoves ==
  ASSUME call \in [Callers -> Call], NEW c \in Callers, NEW pc \in Steps,
         NEW ops \in SUBSET Nodes, call[c].at \in Nodes, NextNode(c, pc, ops)
  PROVE  \E o \in Call : /\ call' = [call EXCEPT ![c] = o]
                         /\ o.pc = pc /\ o.gen = call[c].gen /\ o.at = call[c].at + 1
<1> DEFINE o == [call[c] EXCEPT !.pc = pc, !.at = @ + 1, !.ops = ops]
<1>1. call[c].at + 1 \in 1 .. NodeCount + 1
  BY ProviderAssumption DEF Nodes, ProviderAssumption
<1>2. o \in Call /\ o.pc = pc /\ o.gen = call[c].gen /\ o.at = call[c].at + 1
  BY <1>1 DEF Call
<1>3. call' = [call EXCEPT ![c] = o]
  BY DEF NextNode
<1> QED
  BY <1>2, <1>3

LEMMA EndCallMoves ==
  ASSUME NEW c \in Callers, EndCall(c)
  PROVE  \E o \in Call : call' = [call EXCEPT ![c] = o] /\ Fits(c, o)'
BY RestFits DEF EndCall

(* One caller moves: the others are at rest, or they are Reapers, for      *)
(* which the environment only loses what it has.                           *)
Wanes ==
  /\ goal' \in {"release", "released"}
  /\ incus'.project => incus.project
  /\ incus'.net # 0 => incus.net # 0

LEMMA OneMoves ==
  ASSUME ResourceInv, NEW c \in Callers, ~At(c, "idle"), NEW o \in Call,
         call' = [call EXCEPT ![c] = o], UNCHANGED <<kind, resets>>, Fits(c, o)',
         c # ControllerCaller => Wanes
  PROVE  CallsPart' /\ call' \in [Callers -> Call]
<1>1. call \in [Callers -> Call] /\ Entitled(c, call[c])
  BY CallHere
<1>2. call' \in [Callers -> Call]
  BY <1>1
<1>3. ASSUME NEW d \in Callers
      PROVE  Fits(d, call[d])'
  <2>1. CASE d = c
    BY <1>1, <2>1
  <2>2. CASE d # c
    <3>1. call'[d] = call[d] /\ Fits(d, call[d])
      BY <1>1, <2>2 DEF ResourceInv, CallsPart
    <3>2. CASE c = ControllerCaller
      BY <1>1, <2>2, <3>1, <3>2 DEF Fits, Entitled
    <3>3. CASE c # ControllerCaller /\ d = ControllerCaller
      BY <1>1, <2>2, <3>1, <3>3 DEF Fits, Entitled
    <3>4. CASE c # ControllerCaller /\ d # ControllerCaller
      <4>1. CASE call[d].pc = "idle"
        BY <3>1, <4>1 DEF Fits
      <4>2. CASE call[d].pc # "idle"
        <5>1. Entitled(d, call[d])'
          BY <3>1, <3>4, <4>2 DEF Fits, Entitled, Wanes
        <5>2. AtNodes(call[d])'
          BY <3>1, <3>4, <4>2 DEF Fits, Entitled, AtNodes, Wanes, Tears, NodeDeleting, ClusterDeleting, NodeBuilding
        <5>3. AtJobs(call[d])'
          BY <3>1, <3>4, <4>2 DEF Fits, Entitled, AtJobs, Passed, Tears, NodeDeleting, ClusterDeleting
        <5>4. AtCluster(d, call[d])'
          BY <3>4 DEF AtCluster
        <5> QED
          BY <5>1, <5>2, <5>3, <5>4 DEF Fits
      <4> QED
        BY <4>1, <4>2
    <3> QED
      BY <3>2, <3>3, <3>4
  <2> QED
    BY <2>1, <2>2
<1> QED
  BY <1>2, <1>3 DEF CallsPart

-----------------------------------------------------------------------------
(* The resources, for each kind of step.                                   *)

LEMMA OnlyCalls ==
  ASSUME ResourceInv, NEW c \in Callers, ~At(c, "idle"), NEW o \in Call,
         call' = [call EXCEPT ![c] = o], Fits(c, o)',
         UNCHANGED <<kind, goal, resets, node, k8s, world>>, failures' \in 0 .. MaxFailures
  PROVE  ResourceInv'
<1>1. c # ControllerCaller => Wanes
  BY CallHere DEF Entitled, Wanes, node
<1>2. CallsPart' /\ call' \in [Callers -> Call]
  BY <1>1, OneMoves
<1>3. ProviderTypeOK'
  BY <1>2 DEF ResourceInv, ProviderTypeOK, node, world
<1>4. KindPart' /\ IncusPart' /\ InstancePart' /\ ClusterPart' /\ GoalPart'
  BY DEF ResourceInv, WorldPart, KindPart, IncusPart, InstancePart, ClusterPart, GoalPart,
         node
<1>5. ReadyPart' /\ GonePart'
  BY DEF ResourceInv, ReadyPart, GonePart, Bare, Populated, node
<1> QED
  BY <1>2, <1>3, <1>4, <1>5 DEF ResourceInv, WorldPart

LEMMA CallEnds ==
  ASSUME ResourceInv, NEW c \in Callers, ~At(c, "idle"), EndCall(c),
         UNCHANGED <<kind, goal, resets, node, k8s, world>>, failures' \in 0 .. MaxFailures
  PROVE  ResourceInv'
BY EndCallMoves, OnlyCalls

(* A request of a call to the Incus server.                                *)
LEMMA NodeCall ==
  ASSUME ResourceInv, NEW c \in Callers, ~At(c, "idle"), kind = "node", NEW o \in Call,
         call' = [call EXCEPT ![c] = o], Fits(c, o)',
         UNCHANGED <<goal, inst>>, NodeKeeps,
         incus' \in Incus, job' \in [Nodes -> Jobs], IncusPart', InstancePart',
         c # ControllerCaller =>
           /\ incus'.project => incus.project
           /\ incus'.net # 0 => incus.net # 0
           /\ incus = NoIncus => incus' = NoIncus
  PROVE  ResourceInv'
<1>1. c # ControllerCaller => Wanes
  BY CallHere DEF Entitled, Wanes
<1>2. CallsPart' /\ call' \in [Callers -> Call]
  BY <1>1, OneMoves DEF NodeKeeps
<1>3. ProviderTypeOK'
  BY <1>2 DEF ResourceInv, ProviderTypeOK, NodeKeeps, world
<1>4. KindPart' /\ ClusterPart' /\ GoalPart'
  BY DEF ResourceInv, WorldPart, KindPart, ClusterPart, GoalPart, NodeKeeps
<1>5. ReadyPart' /\ GonePart'
  <2>1. goal # "ready" /\ (goal = "released" => c # ControllerCaller)
    BY CallHere DEF Entitled
  <2> QED
    BY <2>1 DEF ResourceInv, ReadyPart, GonePart, Bare, Populated, NodeKeeps
<1> QED
  BY <1>2, <1>3, <1>4, <1>5 DEF ResourceInv, WorldPart

(* A request of a call to Kubernetes, or a vcluster command.               *)
LEMMA ClusterCall ==
  ASSUME ResourceInv, NEW c \in Callers, ~At(c, "idle"), kind # "node", NEW o \in Call,
         call' = [call EXCEPT ![c] = o], Fits(c, o)',
         UNCHANGED goal, ClusterKeeps, k8s' \in Namespace, ClusterPart',
         c # ControllerCaller => (k8s.state = "absent" => k8s'.state = "absent")
  PROVE  ResourceInv'
<1>1. c # ControllerCaller => Wanes
  BY CallHere DEF Entitled, Wanes, ClusterKeeps, node
<1>2. CallsPart' /\ call' \in [Callers -> Call]
  BY <1>1, OneMoves DEF ClusterKeeps
<1>3. ProviderTypeOK'
  BY <1>2 DEF ResourceInv, ProviderTypeOK, ClusterKeeps, node, world
<1>4. KindPart' /\ IncusPart' /\ InstancePart' /\ GoalPart'
  BY DEF ResourceInv, WorldPart, KindPart, IncusPart, InstancePart, GoalPart, ClusterKeeps, node
<1>5. ReadyPart' /\ GonePart'
  <2>1. goal # "ready" /\ (goal = "released" => c # ControllerCaller)
    BY CallHere DEF Entitled
  <2> QED
    BY <2>1 DEF ResourceInv, ReadyPart, GonePart, Bare, Populated, ClusterKeeps, node
<1> QED
  BY <1>2, <1>3, <1>4, <1>5 DEF ResourceInv, WorldPart

(* What a later step may assume when nothing it looks at has changed.      *)
LEMMA StillThere ==
  ASSUME ResourceInv, UNCHANGED <<incus, inst, resets>>
  PROVE  IncusPart' /\ InstancePart' /\ incus' \in Incus
BY DEF ResourceInv, ProviderTypeOK, WorldPart, IncusPart, InstancePart

-----------------------------------------------------------------------------
(* Building a node environment.                                            *)

(* Whoever is at a step of building is the Controller.                     *)
LEMMA Builder ==
  ASSUME ResourceInv, NEW c \in Callers, call[c].pc \in NodeBuilding
  PROVE  /\ ~At(c, "idle") /\ c = ControllerCaller /\ kind = "node"
         /\ incus \in Incus /\ job \in [Nodes -> Jobs] /\ inst \in [Nodes -> Instance]
<1>1. ~At(c, "idle")
  BY DEF At, NodeBuilding
<1>2. call[c].pc \notin Tears
  BY DEF NodeBuilding, Tears, NodeDeleting, ClusterDeleting
<1>3. Entitled(c, call[c])
  BY <1>1, CallHere
<1> QED
  BY <1>1, <1>2, <1>3 DEF Entitled, ResourceInv, ProviderTypeOK

(* A step of building that only moves on.                                  *)
LEMMA BuildsOn ==
  ASSUME ResourceInv, NEW c \in Callers, call[c].pc \in NodeBuilding,
         NEW o \in Call, call' = [call EXCEPT ![c] = o], o.gen = call[c].gen,
         o.pc \in NodeBuilding, AtNodes(o)', AtJobs(o)', o.pc = "created" => o.at \in Nodes,
         UNCHANGED <<goal, inst>>, NodeKeeps,
         incus' \in Incus, job' \in [Nodes -> Jobs], IncusPart', InstancePart'
  PROVE  ResourceInv'
<1>1. ~At(c, "idle") /\ c = ControllerCaller /\ kind = "node"
  BY Builder
<1>2. o.pc \notin Tears /\ o.pc \notin {"stopping", "removing"} /\ o.pc \notin ClusterBuilding \cup ClusterDeleting
  BY DEF NodeBuilding, NodeDeleting, ClusterBuilding, ClusterDeleting, Tears
<1>3. Entitled(c, o)'
  BY <1>1, <1>2, CallHere DEF Entitled, NodeKeeps
<1>4. AtCluster(c, o)'
  <2>1. k8s' = k8s /\ AtCluster(c, call[c])
    BY <1>1, CallHere DEF NodeKeeps
  <2>2. o.pc \notin {"plane", "kubeconfig", "terminal"}
    BY DEF NodeBuilding
  <2> QED
    BY <1>2, <2>1, <2>2 DEF AtCluster
<1>5. Fits(c, o)'
  BY <1>3, <1>4 DEF Fits
<1> QED
  BY <1>1, <1>5, NodeCall

LEMMA ACLKept ==
  ASSUME ResourceInv, NEW c \in Callers, EnsureEnvironmentACL(c)
  PROVE  ResourceInv'
<1>1. call[c].pc \in NodeBuilding /\ At(c, "acl")
  BY DEF EnsureEnvironmentACL, At, NodeBuilding
<1>2. c = ControllerCaller /\ incus \in Incus /\ job \in [Nodes -> Jobs] /\ call \in [Callers -> Call] /\ AtNodes(call[c])
  BY <1>1, Builder, CallHere
<1>3. PICK o \in Call : /\ call' = [call EXCEPT ![c] = o]
                        /\ o.pc = "network" /\ o.gen = call[c].gen
  BY <1>2, GotoMoves DEF EnsureEnvironmentACL, Steps
<1>4. /\ incus' \in Incus /\ incus'.acl /\ incus'.net = incus.net /\ incus'.project = incus.project
      /\ incus'.stamp = incus.stamp /\ incus'.image = incus.image /\ incus'.profile = incus.profile
  BY <1>2 DEF EnsureEnvironmentACL, Incus
<1>5. AtNodes(o)' /\ AtJobs(o)'
  BY <1>1, <1>2, <1>3, <1>4 DEF AtNodes, AtJobs, Passed, At, NodeBuilding
<1>6. IncusPart' /\ InstancePart'
  BY <1>4 DEF EnsureEnvironmentACL, ResourceInv, WorldPart, IncusPart, InstancePart, Unmoved, NodeKeeps
<1> QED
  BY <1>1, <1>2, <1>3, <1>4, <1>5, <1>6, BuildsOn DEF EnsureEnvironmentACL, NodeBuilding, Unmoved

LEMMA SubnetFacts ==
  ASSUME NEW occupied
  PROVE  SelectSubnet(occupied) \in 0 .. SlotCount
<1> DEFINE Less == {p \in Nat \X Nat : p[1] < p[2]}
<1> DEFINE vacant == Slots \ occupied
<1>1. vacant \subseteq Nat /\ Slots \subseteq 0 .. SlotCount /\ 0 \in 0 .. SlotCount
  BY ProviderAssumption DEF Slots, ProviderAssumption
<1>2. CASE Slots \subseteq occupied
  BY <1>1, <1>2 DEF SelectSubnet
<1>3. CASE ~(Slots \subseteq occupied)
  <2>1. vacant # {}
    BY <1>3
  <2>2. IsWellFoundedOn(Less, Nat)
    BY NatLessThanWellFounded, Zenon DEF OpToRel
  <2>3. PICK k \in vacant : \A j \in vacant : <<j, k>> \notin Less
    <3> HIDE DEF Less, vacant
    <3> QED BY <1>1, <2>1, <2>2, WFMin
  <2>4. ASSUME NEW j \in vacant PROVE k <= j
    <3>1. j \in Nat /\ k \in Nat /\ <<j, k>> \notin Less
      BY <1>1, <2>3
    <3> QED
      BY <3>1
  <2>5. SelectSubnet(occupied) \in Slots \ occupied
    BY <1>3, <2>4 DEF SelectSubnet
  <2> QED
    BY <1>1, <2>5
<1> QED
  BY <1>2, <1>3

(* Taking another subnet, creating the network.                            *)
LEMMA NetworkKept ==
  ASSUME ResourceInv, NEW c \in Callers, EnsureEnvironmentNetwork(c)
  PROVE  ResourceInv'
<1>1. call[c].pc \in NodeBuilding /\ At(c, "network")
  BY DEF EnsureEnvironmentNetwork, At, NodeBuilding
<1>2. /\ c = ControllerCaller /\ incus \in Incus /\ job \in [Nodes -> Jobs]
      /\ call \in [Callers -> Call] /\ AtNodes(call[c]) /\ ~At(c, "idle")
  BY <1>1, Builder, CallHere
<1>3. CASE incus.net # 0 \/ (incus.net = 0 /\ SelectSubnet(others) # 0)
  <2>1. PICK o \in Call :
          /\ call' = [call EXCEPT ![c] = o] /\ o.gen = call[c].gen
          /\ o.pc = "project" \/ (o.pc = "create_network" /\ incus.net = 0)
    <3>1. CASE incus.net # 0
      BY <1>2, <3>1, GotoMoves DEF EnsureEnvironmentNetwork, Steps
    <3>2. CASE incus.net = 0
      <4> DEFINE o == [call[c] EXCEPT !.pc = "create_network", !.slot = SelectSubnet(others)]
      <4>1. o \in Call /\ o.gen = call[c].gen /\ o.pc = "create_network"
        BY <1>2, SubnetFacts DEF Call, Steps
      <4>2. call' = [call EXCEPT ![c] = o]
        BY <1>2, <1>3, <3>2 DEF EnsureEnvironmentNetwork
      <4> QED
        BY <3>2, <4>1, <4>2
    <3> QED
      BY <1>3, <3>1, <3>2
  <2>2. AtNodes(o)' /\ AtJobs(o)'
    BY <1>1, <1>2, <2>1 DEF AtNodes, AtJobs, Passed, At, NodeBuilding, EnsureEnvironmentNetwork
  <2>3. UNCHANGED <<incus, goal, inst, job>> /\ NodeKeeps
    BY DEF EnsureEnvironmentNetwork, Unmoved
  <2>4. IncusPart' /\ InstancePart'
    BY <2>3, StillThere DEF NodeKeeps
  <2> QED
    BY <1>1, <1>2, <2>1, <2>2, <2>3, <2>4, BuildsOn DEF NodeBuilding
<1>4. CASE incus.net = 0 /\ SelectSubnet(others) = 0
  <2>1. EndCall(c) /\ UNCHANGED <<kind, goal, resets, node, k8s, world>> /\ UNCHANGED failures
    BY <1>4 DEF EnsureEnvironmentNetwork, Unmoved, NodeKeeps, node, world
  <2> QED
    BY <1>2, <2>1, CallEnds DEF ResourceInv, ProviderTypeOK
<1> QED
  BY <1>3, <1>4

LEMMA CreateNetworkKept ==
  ASSUME ResourceInv, NEW c \in Callers, CreateNetwork(c)
  PROVE  ResourceInv'
<1>1. call[c].pc \in NodeBuilding /\ At(c, "create_network")
  BY DEF CreateNetwork, At, NodeBuilding
<1>2. /\ c = ControllerCaller /\ incus \in Incus /\ job \in [Nodes -> Jobs]
      /\ call \in [Callers -> Call] /\ AtNodes(call[c])
  BY <1>1, Builder, CallHere
<1>3. PICK o \in Call : /\ call' = [call EXCEPT ![c] = o]
                        /\ o.pc \in {"network", "project"} /\ o.gen = call[c].gen
  BY <1>2, GotoMoves DEF CreateNetwork, Steps
<1>4. incus.acl /\ incus.net = 0 /\ (incus.project => incus.stamp = call[c].gen)
  BY <1>1, <1>2 DEF AtNodes, At, NodeBuilding
<1>5. /\ incus' \in Incus /\ incus'.acl = incus.acl /\ incus'.project = incus.project
      /\ incus'.stamp = incus.stamp /\ incus'.image = incus.image /\ incus'.profile = incus.profile
  <2>1. call[c].slot \in 0 .. SlotCount
    BY <1>2 DEF Call
  <2> QED
    BY <1>2, <2>1 DEF CreateNetwork, Incus
<1>6. AtNodes(o)' /\ AtJobs(o)'
  BY <1>3, <1>4, <1>5 DEF AtNodes, AtJobs, Passed
<1>7. IncusPart' /\ InstancePart'
  <2>1. \A n \in Nodes : inst[n].state = "none"
    BY <1>4 DEF ResourceInv, WorldPart, InstancePart
  <2>2. UNCHANGED <<inst, resets>>
    BY DEF CreateNetwork, Unmoved, NodeKeeps
  <2> QED
    BY <1>4, <1>5, <2>1, <2>2 DEF ResourceInv, WorldPart, IncusPart, InstancePart
<1> QED
  BY <1>1, <1>2, <1>3, <1>5, <1>6, <1>7, BuildsOn DEF CreateNetwork, NodeBuilding, Unmoved

LEMMA ProjectKept ==
  ASSUME ResourceInv, NEW c \in Callers, EnsureEnvironmentProject(c)
  PROVE  ResourceInv'
<1>1. call[c].pc \in NodeBuilding /\ At(c, "project")
  BY DEF EnsureEnvironmentProject, At, NodeBuilding
<1>2. /\ c = ControllerCaller /\ incus \in Incus /\ job \in [Nodes -> Jobs]
      /\ call \in [Callers -> Call] /\ AtNodes(call[c]) /\ Entitled(c, call[c])
  BY <1>1, Builder, CallHere
<1>3. PICK o \in Call : /\ call' = [call EXCEPT ![c] = o]
                        /\ o.pc = "image" /\ o.gen = call[c].gen
  BY <1>2, GotoMoves DEF EnsureEnvironmentProject, Steps
<1>4. /\ incus' \in Incus /\ incus'.acl = incus.acl /\ incus'.net = incus.net
      /\ incus'.image = incus.image /\ incus'.profile = incus.profile
      /\ incus'.project /\ incus'.stamp = call[c].gen
      /\ incus.project => incus'.stamp = incus.stamp
  <2>1. call[c].gen \in Generations
    BY <1>2 DEF Call
  <2>2. incus.project => incus.stamp = call[c].gen
    BY <1>1, <1>2 DEF AtNodes, At
  <2> QED
    BY <1>2, <2>1, <2>2 DEF EnsureEnvironmentProject, Incus
<1>5. AtNodes(o)' /\ AtJobs(o)'
  BY <1>3, <1>4 DEF AtNodes, AtJobs, Passed
<1>6. IncusPart' /\ InstancePart'
  <2>1. UNCHANGED <<inst, resets>> /\ call[c].gen <= resets
    BY <1>2 DEF EnsureEnvironmentProject, Unmoved, NodeKeeps, Entitled
  <2> QED
    BY <1>4, <2>1 DEF ResourceInv, WorldPart, IncusPart, InstancePart
<1> QED
  BY <1>1, <1>2, <1>3, <1>4, <1>5, <1>6, BuildsOn
     DEF EnsureEnvironmentProject, NodeBuilding, Unmoved

LEMMA ImageKept ==
  ASSUME ResourceInv, NEW c \in Callers, EnsureEnvironmentImage(c)
  PROVE  ResourceInv'
<1>1. call[c].pc \in NodeBuilding /\ At(c, "image")
  BY DEF EnsureEnvironmentImage, At, NodeBuilding
<1>2. /\ c = ControllerCaller /\ incus \in Incus /\ job \in [Nodes -> Jobs]
      /\ call \in [Callers -> Call] /\ AtNodes(call[c])
  BY <1>1, Builder, CallHere
<1>3. PICK o \in Call : /\ call' = [call EXCEPT ![c] = o]
                        /\ o.pc = "profile" /\ o.gen = call[c].gen
  BY <1>2, GotoMoves DEF EnsureEnvironmentImage, Steps
<1>4. /\ incus' \in Incus /\ incus'.acl = incus.acl /\ incus'.net = incus.net
      /\ incus'.profile = incus.profile /\ incus'.project = incus.project
      /\ incus'.stamp = incus.stamp
  BY <1>2 DEF EnsureEnvironmentImage, Incus
<1>5. incus.project /\ incus.stamp = call[c].gen
  BY <1>1, <1>2 DEF AtNodes, At, NodeBuilding
<1>6. AtNodes(o)' /\ AtJobs(o)'
  BY <1>3, <1>4, <1>5 DEF AtNodes, AtJobs, Passed
<1>7. IncusPart' /\ InstancePart'
  BY <1>4, <1>5 DEF ResourceInv, WorldPart, IncusPart, InstancePart, EnsureEnvironmentImage, Unmoved, NodeKeeps
<1> QED
  BY <1>1, <1>2, <1>3, <1>4, <1>6, <1>7, BuildsOn
     DEF EnsureEnvironmentImage, NodeBuilding, Unmoved

LEMMA ProfileKept ==
  ASSUME ResourceInv, NEW c \in Callers, EnsureEnvironmentProfile(c)
  PROVE  ResourceInv'
<1>1. call[c].pc \in NodeBuilding /\ At(c, "profile")
  BY DEF EnsureEnvironmentProfile, At, NodeBuilding
<1>2. /\ c = ControllerCaller /\ incus \in Incus /\ job \in [Nodes -> Jobs]
      /\ call \in [Callers -> Call] /\ AtNodes(call[c])
  BY <1>1, Builder, CallHere
<1>3. PICK o \in Call : /\ call' = [call EXCEPT ![c] = o]
                        /\ o.pc = "instance" /\ o.gen = call[c].gen /\ o.at = 1
  BY <1>2, LoopMoves DEF EnsureEnvironmentProfile, Steps
<1>4. /\ incus' \in Incus /\ incus'.acl = incus.acl /\ incus'.net = incus.net
      /\ incus'.image = incus.image /\ incus'.project = incus.project
      /\ incus'.stamp = incus.stamp /\ incus'.profile
  BY <1>2 DEF EnsureEnvironmentProfile, Incus
<1>5. incus.project /\ incus.stamp = call[c].gen
  BY <1>1, <1>2 DEF AtNodes, At, NodeBuilding
<1>6. AtNodes(o)'
  BY <1>3, <1>4, <1>5 DEF AtNodes
<1>7. AtJobs(o)'
  <2>1. \A n \in Nodes : ~(n < 1)
    BY ProviderAssumption DEF Nodes, ProviderAssumption
  <2> QED
    BY <1>3, <2>1 DEF AtJobs, Passed
<1>8. IncusPart' /\ InstancePart'
  BY <1>4, <1>5 DEF ResourceInv, WorldPart, IncusPart, InstancePart, EnsureEnvironmentProfile, Unmoved, NodeKeeps
<1> QED
  BY <1>1, <1>2, <1>3, <1>4, <1>6, <1>7, <1>8, BuildsOn
     DEF EnsureEnvironmentProfile, NodeBuilding, Unmoved

(* A step over the instances that leaves the project alone.                *)
LEMMA BuildsInstances ==
  ASSUME ResourceInv, NEW c \in Callers, call[c].pc \in {"instance", "created"},
         NEW o \in Call, call' = [call EXCEPT ![c] = o], o.gen = call[c].gen,
         o.pc \in {"instance", "created", "observe"}, AtJobs(o)',
         o.pc = "created" => o.at \in Nodes,
         UNCHANGED <<goal, incus, inst>>, NodeKeeps, job' \in [Nodes -> Jobs]
  PROVE  ResourceInv'
<1>1. call[c].pc \in NodeBuilding /\ o.pc \in NodeBuilding
  BY DEF NodeBuilding
<1>2. AtNodes(call[c])
  BY <1>1, CallHere, Builder
<1>3. AtNodes(o)'
  BY <1>1, <1>2 DEF AtNodes
<1>4. IncusPart' /\ InstancePart' /\ incus' \in Incus
  BY StillThere DEF NodeKeeps
<1> QED
  BY <1>1, <1>3, <1>4, BuildsOn

LEMMA EnsureInstanceKept ==
  ASSUME ResourceInv, NEW c \in Callers, EnsureEnvironmentInstance(c)
  PROVE  ResourceInv'
<1> DEFINE n == call[c].at
<1>1. call[c].pc = "instance" /\ n \in Nodes
  BY DEF EnsureEnvironmentInstance, At
<1>2. call[c].pc \in NodeBuilding
  BY <1>1 DEF NodeBuilding
<1>3. /\ job \in [Nodes -> Jobs] /\ inst \in [Nodes -> Instance] /\ call \in [Callers -> Call]
      /\ AtJobs(call[c]) /\ ~At(c, "idle")
  BY <1>2, Builder, CallHere
<1>4. UNCHANGED <<goal, incus, inst>> /\ NodeKeeps
  BY DEF EnsureEnvironmentInstance
<1>5. \A k \in Nodes : k < n => job[k] \in {"none", "start"}
  BY <1>1, <1>3 DEF AtJobs, Passed
<1>6. CASE EndCall(c) /\ UNCHANGED job
  BY <1>3, <1>4, <1>6, CallEnds DEF NodeKeeps, node, ResourceInv, ProviderTypeOK
<1>7. CASE Goto(c, "created") /\ job' = [job EXCEPT ![n] = "create"]
  <2>1. PICK o \in Call : /\ call' = [call EXCEPT ![c] = o]
                          /\ o.pc = "created" /\ o.gen = call[c].gen /\ o.at = n
    BY <1>3, <1>7, GotoMoves DEF Steps
  <2>2. job' \in [Nodes -> Jobs]
    BY <1>3, <1>7 DEF Jobs
  <2>3. AtJobs(o)'
    <3> SUFFICES ASSUME NEW k \in Nodes, Passed(o, k)
                 PROVE  job'[k] \in {"none", "start"}
      BY DEF AtJobs, Passed
    <3>1. k < n
      BY <2>1 DEF Passed
    <3>2. k # n
      BY <1>1, <3>1, ProviderAssumption DEF Nodes, ProviderAssumption
    <3> QED
      BY <1>3, <1>5, <1>7, <3>1, <3>2
  <2> QED
    BY <1>1, <1>4, <2>1, <2>2, <2>3, BuildsInstances
<1>8. ASSUME NEW ops \in SUBSET Nodes, NextNode(c, "instance", ops), job[n] = "none",
             \/ UNCHANGED job
             \/ job' = [job EXCEPT ![n] = "start"]
      PROVE  ResourceInv'
  <2>1. PICK o \in Call : /\ call' = [call EXCEPT ![c] = o]
                          /\ o.pc = "instance" /\ o.gen = call[c].gen /\ o.at = n + 1
    BY <1>1, <1>3, <1>8, NextNodeMoves DEF Steps
  <2>2. job' \in [Nodes -> Jobs]
    BY <1>3, <1>8 DEF Jobs
  <2>3. AtJobs(o)'
    <3> SUFFICES ASSUME NEW k \in Nodes, Passed(o, k)
                 PROVE  job'[k] \in {"none", "start"}
      BY DEF AtJobs, Passed
    <3>1. k < n + 1
      BY <2>1 DEF Passed
    <3>2. k < n \/ k = n
      BY <1>1, <3>1, ProviderAssumption DEF Nodes, ProviderAssumption
    <3>3. CASE k = n
      BY <1>1, <1>3, <1>8, <3>3
    <3>4. CASE k < n /\ k # n
      BY <1>3, <1>5, <1>8, <3>4
    <3> QED
      BY <3>2, <3>3, <3>4
  <2> QED
    BY <1>1, <1>4, <2>1, <2>2, <2>3, BuildsInstances
<1>9. call[c].ops \in SUBSET Nodes /\ call[c].ops \cup {n} \in SUBSET Nodes
  BY <1>1, <1>3 DEF Call
<1> DEFINE i == inst[n]
<1>10. /\ \/ job[n] # "none" \/ i.state = "none" \/ (i.state # "none" /\ ~ValidInstance(i))
          \/ i.state = "running" /\ ValidInstance(i)
          \/ i.state = "stopped" /\ ValidInstance(i)
  BY <1>1, <1>3 DEF Instance
<1>11. \/ EndCall(c) /\ UNCHANGED job
       \/ Goto(c, "created") /\ job' = [job EXCEPT ![n] = "create"]
       \/ NextNode(c, "instance", call[c].ops) /\ UNCHANGED job /\ job[n] = "none"
       \/ /\ NextNode(c, "instance", call[c].ops \cup {n}) /\ job' = [job EXCEPT ![n] = "start"]
          /\ job[n] = "none"
  BY <1>10 DEF EnsureEnvironmentInstance
<1> HIDE DEF n, i
<1> QED
  BY <1>6, <1>7, <1>8, <1>9, <1>11

LEMMA WaitCreatedKept ==
  ASSUME ResourceInv, NEW c \in Callers, WaitCreated(c)
  PROVE  ResourceInv'
<1>1. call[c].pc = "created"
  BY DEF WaitCreated, At
<1>2. call[c].pc \in NodeBuilding
  BY <1>1 DEF NodeBuilding
<1>3. /\ job \in [Nodes -> Jobs] /\ call \in [Callers -> Call]
      /\ AtJobs(call[c]) /\ ~At(c, "idle")
  BY <1>2, Builder, CallHere
<1>4. UNCHANGED <<goal, incus, inst, job>> /\ NodeKeeps
  BY DEF WaitCreated, Unmoved
<1>5. CASE EndCall(c)
  BY <1>3, <1>4, <1>5, CallEnds DEF NodeKeeps, node, ResourceInv, ProviderTypeOK
<1>6. CASE Goto(c, "instance")
  <2>1. PICK o \in Call : /\ call' = [call EXCEPT ![c] = o]
                          /\ o.pc = "instance" /\ o.gen = call[c].gen /\ o.at = call[c].at
    BY <1>3, <1>6, GotoMoves DEF Steps
  <2>2. AtJobs(o)'
    BY <1>1, <1>3, <1>4, <2>1 DEF AtJobs, Passed
  <2> QED
    BY <1>1, <1>3, <1>4, <2>1, <2>2, BuildsInstances
<1> QED
  BY <1>5, <1>6 DEF WaitCreated

LEMMA WaitStartedKept ==
  ASSUME ResourceInv, NEW c \in Callers, WaitStarted(c)
  PROVE  ResourceInv'
<1>1. call[c].pc = "instance" /\ call[c].at \notin Nodes
  BY DEF WaitStarted, At
<1>2. call[c].pc \in NodeBuilding
  BY <1>1 DEF NodeBuilding
<1>3. /\ job \in [Nodes -> Jobs] /\ call \in [Callers -> Call]
      /\ AtJobs(call[c]) /\ ~At(c, "idle")
  BY <1>2, Builder, CallHere
<1>4. UNCHANGED <<goal, incus, inst, job>> /\ NodeKeeps
  BY DEF WaitStarted, Unmoved
<1>5. PICK o \in Call : /\ call' = [call EXCEPT ![c] = o]
                        /\ o.pc = "observe" /\ o.gen = call[c].gen
  BY <1>3, LoopMoves DEF WaitStarted, Steps
<1>6. AtJobs(o)'
  <2>1. call[c].at \in 1 .. NodeCount + 1
    BY <1>3 DEF Call
  <2>2. \A n \in Nodes : n < call[c].at
    BY <1>1, <2>1, ProviderAssumption DEF Nodes, ProviderAssumption
  <2> QED
    BY <1>1, <1>3, <1>4, <2>2 DEF AtJobs, Passed
<1> QED
  BY <1>1, <1>3, <1>4, <1>5, <1>6, BuildsInstances

LEMMA ObserveNodeKept ==
  ASSUME ResourceInv, NEW c \in Callers, ObserveNodeEnvironment(c)
  PROVE  ResourceInv'
<1>1. call[c].pc = "observe" /\ call[c].pc \in NodeBuilding
  BY DEF ObserveNodeEnvironment, At, NodeBuilding
<1>2. /\ c = ControllerCaller /\ kind = "node" /\ ~At(c, "idle")
      /\ AtJobs(call[c]) /\ AtNodes(call[c]) /\ Entitled(c, call[c])
  BY <1>1, Builder, CallHere
<1>3. EndCall(c) /\ UNCHANGED <<incus, inst, job>> /\ NodeKeeps
  BY DEF ObserveNodeEnvironment, Observed
<1>4. CASE goal' = goal
  BY <1>2, <1>3, <1>4, CallEnds DEF NodeKeeps, node, ResourceInv, ProviderTypeOK
<1>5. CASE /\ goal' = "ready" /\ call[c].gen = resets
           /\ \A n \in Nodes : Initialized(inst[n])
  <2>1. CallsPart' /\ call' \in [Callers -> Call]
    BY <1>2, <1>3, EndCallMoves, OneMoves DEF NodeKeeps
  <2>2. ProviderTypeOK'
    BY <1>3, <1>5, <2>1 DEF ResourceInv, ProviderTypeOK, NodeKeeps, world, Goals
  <2>3. KindPart' /\ IncusPart' /\ InstancePart' /\ GoalPart'
    BY <1>3, <1>5 DEF ResourceInv, WorldPart, KindPart, IncusPart, InstancePart, GoalPart, NodeKeeps
  <2>4. ClusterPart'
    <3>1. k8s' = NoNamespace
      BY <1>2, <1>3 DEF ResourceInv, WorldPart, KindPart, NodeKeeps
    <3>2. 0 <= resets' /\ resets' = resets
      BY <1>3, ProviderAssumption DEF NodeKeeps, ResourceInv, ProviderTypeOK, Generations, ProviderAssumption
    <3> QED
      BY <3>1, <3>2 DEF ClusterPart, NoNamespace
  <2>5. GonePart'
    BY <1>5 DEF GonePart
  <2>6. ReadyPart'
    <3>1. incus.project => incus.stamp = resets
      BY <1>1, <1>2, <1>5 DEF AtNodes
    <3>2. ASSUME NEW n \in Nodes
          PROVE  inst[n].state # "none" /\ inst[n].born = resets /\ job[n] \in {"none", "start"}
      <4>1. inst[n].state # "none"
        BY <1>5 DEF Initialized
      <4>2. incus.stamp <= inst[n].born /\ inst[n].born <= resets /\ incus.project
        BY <4>1 DEF ResourceInv, WorldPart, InstancePart
      <4>3. inst[n].born \in Nat /\ resets \in Nat
        BY ProviderAssumption DEF ResourceInv, ProviderTypeOK, Instance, Generations, ProviderAssumption
      <4>4. inst[n].born = resets
        BY <3>1, <4>2, <4>3
      <4> QED
        BY <1>1, <1>2, <4>1, <4>4 DEF AtJobs, Passed
    <3> QED
      BY <1>2, <1>3, <3>2 DEF ReadyPart, NodeKeeps
  <2> QED
    BY <2>1, <2>2, <2>3, <2>4, <2>5, <2>6 DEF ResourceInv, WorldPart
<1> QED
  BY <1>4, <1>5 DEF ObserveNodeEnvironment, Observed

-----------------------------------------------------------------------------
(* Deleting a node environment.                                            *)

LEMMA Deleter ==
  ASSUME ResourceInv, NEW c \in Callers, call[c].pc \in NodeDeleting
  PROVE  /\ ~At(c, "idle") /\ kind = "node" /\ call[c].pc \in Tears
         /\ incus \in Incus /\ job \in [Nodes -> Jobs] /\ inst \in [Nodes -> Instance]
<1>1. ~At(c, "idle")
  BY DEF At, NodeDeleting
<1>2. Entitled(c, call[c])
  BY <1>1, CallHere
<1> QED
  BY <1>1, <1>2 DEF Entitled, ResourceInv, ProviderTypeOK, Tears

(* A step of deleting that is not the last.                                *)
LEMMA TearsOn ==
  ASSUME ResourceInv, NEW c \in Callers, ~At(c, "idle"), kind = "node", call[c].pc \in Tears,
         NEW o \in Call, call' = [call EXCEPT ![c] = o], o.gen = call[c].gen,
         o.pc \in NodeDeleting, o.pc \in {"stopping", "removing"} => o.at \in Nodes,
         o.pc \in {"del_network", "del_acl"} => ~incus'.project,
         o.pc = "del_acl" => incus'.net = 0,
         UNCHANGED <<goal, inst>>, NodeKeeps,
         incus' \in Incus, job' \in [Nodes -> Jobs], IncusPart', InstancePart',
         /\ incus'.project => incus.project
         /\ incus'.net # 0 => incus.net # 0
         /\ incus = NoIncus => incus' = NoIncus
  PROVE  ResourceInv'
<1>1. /\ o.pc \in Tears /\ o.pc # "created"
      /\ o.pc \notin {"plane", "kubeconfig", "terminal"} /\ o.pc \notin ClusterBuilding \cup ClusterDeleting
      /\ o.pc \notin {"network", "create_network", "image", "profile", "instance", "created", "observe"}
      /\ o.pc \notin NodeBuilding
  BY DEF Tears, NodeDeleting, ClusterBuilding, ClusterDeleting, NodeBuilding
<1>2. Entitled(c, o)'
  BY <1>1, CallHere DEF Entitled, NodeKeeps
<1>3. AtNodes(o)'
  BY <1>1 DEF AtNodes
<1>4. AtJobs(o)'
  BY <1>1 DEF AtJobs, Passed
<1>5. AtCluster(c, o)'
  <2>1. k8s' = k8s /\ AtCluster(c, call[c])
    BY CallHere DEF NodeKeeps
  <2> QED
    BY <1>1, <2>1 DEF AtCluster
<1>6. Fits(c, o)'
  BY <1>2, <1>3, <1>4, <1>5 DEF Fits
<1> QED
  BY <1>6, NodeCall

(* The resources are gone, or are the reset's own rebuild.                 *)
LEMMA NodeDeletionEnds ==
  ASSUME ResourceInv, NEW c \in Callers, ~At(c, "idle"), kind = "node", call[c].pc \in Tears,
         DeletionEnds(c), UNCHANGED <<inst, job>>, NodeKeeps,
         incus' \in Incus, IncusPart', InstancePart',
         /\ incus'.project => incus.project
         /\ incus'.net # 0 => incus.net # 0,
         IF c = ControllerCaller THEN incus'.project => incus'.stamp = call[c].gen
                                 ELSE incus' = NoIncus
  PROVE  ResourceInv'
<1>1. call \in [Callers -> Call] /\ Entitled(c, call[c])
  BY CallHere
<1>2. CASE c = ControllerCaller
  <2>1. PICK o \in Call : /\ call' = [call EXCEPT ![c] = o]
                          /\ o.pc = "acl" /\ o.gen = call[c].gen
    BY <1>1, <1>2, GotoMoves DEF DeletionEnds, Steps
  <2>2. Entitled(c, o)'
    BY <1>1, <1>2, <2>1 DEF Entitled, NodeKeeps, DeletionEnds, Tears, NodeDeleting, ClusterDeleting,
       ClusterBuilding
  <2>3. AtNodes(o)'
    BY <1>2, <2>1 DEF AtNodes
  <2>4. AtJobs(o)'
    BY <2>1 DEF AtJobs, Passed
  <2>5. AtCluster(c, o)'
    <3>1. k8s' = k8s /\ AtCluster(c, call[c])
      BY CallHere DEF NodeKeeps
    <3> QED
      BY <2>1, <3>1 DEF AtCluster, ClusterBuilding, ClusterDeleting
  <2>6. Fits(c, o)'
    BY <2>2, <2>3, <2>4, <2>5 DEF Fits
  <2>7. UNCHANGED goal /\ job' \in [Nodes -> Jobs]
    BY <1>2 DEF DeletionEnds, ResourceInv, ProviderTypeOK
  <2> QED
    BY <1>2, <2>1, <2>6, <2>7, NodeCall
<1>3. CASE c # ControllerCaller
  <2>1. EndCall(c) /\ goal' = "released"
    BY <1>3 DEF DeletionEnds
  <2>2. CallsPart' /\ call' \in [Callers -> Call]
    BY <2>1, EndCallMoves, OneMoves DEF NodeKeeps, Wanes
  <2>3. ProviderTypeOK'
    BY <2>1, <2>2 DEF ResourceInv, ProviderTypeOK, NodeKeeps, world, Goals
  <2>4. KindPart' /\ ClusterPart' /\ GoalPart'
    BY <2>1 DEF ResourceInv, WorldPart, KindPart, ClusterPart, GoalPart, NodeKeeps
  <2>5. ReadyPart' /\ GonePart'
    <3>1. incus' = NoIncus /\ k8s'.state = "absent"
      BY <1>3 DEF ResourceInv, WorldPart, KindPart, NodeKeeps, NoNamespace
    <3>2. ~incus'.project
      BY <3>1 DEF NoIncus
    <3>3. ~Populated'
      BY <3>2 DEF InstancePart, Populated
    <3> QED
      BY <2>1, <3>1, <3>3 DEF ReadyPart, GonePart, Bare
  <2> QED
    BY <2>2, <2>3, <2>4, <2>5 DEF ResourceInv, WorldPart
<1> QED
  BY <1>2, <1>3

LEMMA DeleteNodeKept ==
  ASSUME ResourceInv, NEW c \in Callers, DeleteNodeEnvironment(c)
  PROVE  ResourceInv'
<1>1. call[c].pc = "delete" /\ kind = "node" /\ call[c].pc \in Tears /\ ~At(c, "idle")
  BY DEF DeleteNodeEnvironment, At, Tears
<1>2. /\ UNCHANGED <<incus, inst, job>> /\ NodeKeeps
      /\ incus \in Incus /\ job' \in [Nodes -> Jobs]
      /\ call \in [Callers -> Call] /\ Entitled(c, call[c])
  BY <1>1, CallHere DEF DeleteNodeEnvironment, ResourceInv, ProviderTypeOK
<1>3. IncusPart' /\ InstancePart'
  BY <1>2, StillThere DEF NodeKeeps
<1>4. CASE incus.project /\ OwnRebuild(incus.stamp, call[c].gen)
  <2>1. c = ControllerCaller
    BY <1>2, <1>4, ProviderAssumption DEF Entitled, OwnRebuild, ProviderAssumption
  <2> QED
    BY <1>1, <1>2, <1>3, <1>4, <2>1, NodeDeletionEnds DEF DeleteNodeEnvironment, OwnRebuild
<1>5. CASE ~(incus.project /\ OwnRebuild(incus.stamp, call[c].gen))
  <2>1. PICK o \in Call : /\ call' = [call EXCEPT ![c] = o] /\ o.gen = call[c].gen
                          /\ o.pc = "stop" \/ (o.pc = "del_network" /\ ~incus.project)
    <3>1. CASE incus.project
      BY <1>2, <1>5, <3>1, LoopMoves DEF DeleteNodeEnvironment, Steps
    <3>2. CASE ~incus.project
      BY <1>2, <1>5, <3>2, GotoMoves DEF DeleteNodeEnvironment, Steps
    <3> QED
      BY <3>1, <3>2
  <2>2. o.pc \in NodeDeleting
    BY <2>1 DEF NodeDeleting
  <2>3. UNCHANGED goal
    BY <1>5 DEF DeleteNodeEnvironment
  <2> QED
    BY <1>1, <1>2, <1>3, <2>1, <2>2, <2>3, TearsOn
<1> QED
  BY <1>4, <1>5

(* A step over the instances.                                              *)
LEMMA TearsInstances ==
  ASSUME ResourceInv, NEW c \in Callers, call[c].pc \in NodeDeleting,
         NEW o \in Call, call' = [call EXCEPT ![c] = o], o.gen = call[c].gen,
         o.pc \in {"stop", "stopping", "remove", "removing", "del_image"},
         o.pc \in {"stopping", "removing"} => o.at \in Nodes,
         UNCHANGED <<goal, incus, inst>>, NodeKeeps, job' \in [Nodes -> Jobs]
  PROVE  ResourceInv'
<1>1. o.pc \in NodeDeleting /\ o.pc \notin {"del_network", "del_acl"}
  BY DEF NodeDeleting
<1>2. ~At(c, "idle") /\ kind = "node" /\ call[c].pc \in Tears
  BY Deleter
<1>3. IncusPart' /\ InstancePart' /\ incus' \in Incus
  BY StillThere DEF NodeKeeps
<1> QED
  BY <1>1, <1>2, <1>3, TearsOn

LEMMA GetInstanceKept ==
  ASSUME ResourceInv, NEW c \in Callers, GetInstance(c)
  PROVE  ResourceInv'
<1>1. /\ call[c].pc \in {"stop", "remove"} /\ call[c].at \in Nodes
      /\ call[c].pc \in NodeDeleting
  BY DEF GetInstance, NodeDeleting
<1>2. /\ UNCHANGED <<goal, incus, inst, job>> /\ NodeKeeps /\ job' \in [Nodes -> Jobs]
      /\ call \in [Callers -> Call]
  BY <1>1, Deleter, CallHere DEF GetInstance, Unmoved
<1>3. CASE NextNode(c, call[c].pc, call[c].ops)
  <2>1. call[c].ops \in SUBSET Nodes /\ call[c].pc \in Steps
    BY <1>2 DEF Call
  <2>2. PICK o \in Call : /\ call' = [call EXCEPT ![c] = o]
                          /\ o.pc = call[c].pc /\ o.gen = call[c].gen
    BY <1>1, <1>2, <1>3, <2>1, NextNodeMoves
  <2> QED
    BY <1>1, <1>2, <2>2, TearsInstances
<1>4. CASE \E pc \in {"stopping", "removing"} : Goto(c, pc)
  <2>1. PICK o \in Call : /\ call' = [call EXCEPT ![c] = o]
                          /\ o.pc \in {"stopping", "removing"} /\ o.gen = call[c].gen
                          /\ o.at = call[c].at
    BY <1>2, <1>4, GotoMoves DEF Steps
  <2> QED
    BY <1>1, <1>2, <2>1, TearsInstances
<1> QED
  BY <1>3, <1>4 DEF GetInstance

LEMMA StopOrDeleteKept ==
  ASSUME ResourceInv, NEW c \in Callers, StopOrDeleteInstance(c)
  PROVE  ResourceInv'
<1>1. /\ call[c].pc \in {"stopping", "removing"} /\ call[c].pc \in NodeDeleting
  BY DEF StopOrDeleteInstance, NodeDeleting
<1>2. /\ UNCHANGED <<incus, inst>> /\ NodeKeeps /\ job \in [Nodes -> Jobs]
      /\ call \in [Callers -> Call] /\ ~At(c, "idle") /\ call[c].at \in Nodes
  BY <1>1, Deleter, CallHere DEF StopOrDeleteInstance, Entitled
<1>3. UNCHANGED goal
  BY DEF StopOrDeleteInstance, NotFoundAnswer
<1>4. CASE EndCall(c) /\ UNCHANGED job
  BY <1>2, <1>3, <1>4, CallEnds DEF NodeKeeps, node, ResourceInv, ProviderTypeOK
<1>5. ASSUME NEW what \in {"stop", "delete"}, NEW pc \in {"stop", "remove"},
             job' = [job EXCEPT ![call[c].at] = what],
             NextNode(c, pc, call[c].ops \cup {call[c].at})
      PROVE  ResourceInv'
  <2>1. call[c].ops \cup {call[c].at} \in SUBSET Nodes /\ pc \in Steps
    BY <1>2 DEF Call, Steps
  <2>2. PICK o \in Call : /\ call' = [call EXCEPT ![c] = o]
                          /\ o.pc = pc /\ o.gen = call[c].gen
    BY <1>2, <1>5, <2>1, NextNodeMoves
  <2>3. job' \in [Nodes -> Jobs]
    BY <1>2, <1>5 DEF Jobs
  <2> QED
    BY <1>1, <1>2, <1>3, <2>2, <2>3, TearsInstances
<1> QED
  BY <1>4, <1>5 DEF StopOrDeleteInstance, NotFoundAnswer

LEMMA WaitTornKept ==
  ASSUME ResourceInv, NEW c \in Callers, WaitStopped(c) \/ WaitDeleted(c)
  PROVE  ResourceInv'
<1>1. call[c].pc \in NodeDeleting /\ UNCHANGED <<goal, incus, inst, job>> /\ NodeKeeps
  BY DEF WaitStopped, WaitDeleted, At, NodeDeleting, Unmoved
<1>2. call \in [Callers -> Call] /\ job' \in [Nodes -> Jobs]
  BY <1>1, Deleter, CallHere
<1>3. PICK o \in Call : /\ call' = [call EXCEPT ![c] = o]
                        /\ o.pc \in {"remove", "del_image"} /\ o.gen = call[c].gen
  BY <1>2, LoopMoves DEF WaitStopped, WaitDeleted, Steps
<1> QED
  BY <1>1, <1>2, <1>3, TearsInstances

LEMMA BareStaysBare ==
  ASSUME incus' \in Incus, incus'.acl => incus.acl, incus'.net \in {incus.net, 0},
         incus'.project => incus.project, incus'.stamp \in {incus.stamp, 0},
         incus'.image => incus.image, incus'.profile => incus.profile
  PROVE  incus = NoIncus => incus' = NoIncus
<1> SUFFICES ASSUME incus = NoIncus
             PROVE  incus' = NoIncus
  OBVIOUS
<1>1. /\ ~incus.acl /\ incus.net = 0 /\ ~incus.project /\ incus.stamp = 0
      /\ ~incus.image /\ ~incus.profile
  BY DEF NoIncus
<1>2. /\ ~incus'.acl /\ incus'.net = 0 /\ ~incus'.project /\ incus'.stamp = 0
      /\ ~incus'.image /\ ~incus'.profile
  BY <1>1
<1> QED
  BY <1>2 DEF Incus, NoIncus

(* A resource of the project is deleted, if it is there and nothing uses   *)
(* it.                                                                     *)
LEMMA PieceGoes ==
  ASSUME ResourceInv, NEW c \in Callers, call[c].pc \in NodeDeleting,
         NEW pc \in {"del_profile", "del_project", "del_network", "del_acl"}, Goto(c, pc),
         Unmoved, NodeKeeps, incus' \in Incus, IncusPart', InstancePart',
         pc \in {"del_network", "del_acl"} => ~incus'.project,
         pc = "del_acl" => incus'.net = 0,
         /\ incus'.project => incus.project
         /\ incus'.net # 0 => incus.net # 0
         /\ incus = NoIncus => incus' = NoIncus
  PROVE  ResourceInv'
<1>1. /\ ~At(c, "idle") /\ kind = "node" /\ call[c].pc \in Tears
      /\ call \in [Callers -> Call] /\ job' \in [Nodes -> Jobs]
  BY Deleter, CallHere DEF Unmoved
<1>2. PICK o \in Call : /\ call' = [call EXCEPT ![c] = o]
                        /\ o.pc = pc /\ o.gen = call[c].gen
  BY <1>1, GotoMoves DEF Steps
<1>3. o.pc \in NodeDeleting /\ o.pc \notin {"stopping", "removing"}
  BY <1>2 DEF NodeDeleting
<1> QED
  BY <1>1, <1>2, <1>3, TearsOn DEF Unmoved

LEMMA PieceInUse ==
  ASSUME ResourceInv, NEW c \in Callers, call[c].pc \in NodeDeleting, EndCall(c),
         UNCHANGED incus, Unmoved, NodeKeeps
  PROVE  ResourceInv'
BY Deleter, CallEnds DEF Unmoved, NodeKeeps, node, ResourceInv, ProviderTypeOK

LEMMA DeletePiecesKept ==
  ASSUME ResourceInv, NEW c \in Callers,
         \/ DeleteImageIfPresent(c) \/ DeleteProfileIfPresent(c) \/ DeleteProject(c)
         \/ DeleteNetworkIfPresent(c)
  PROVE  ResourceInv'
<1>1. /\ call[c].pc \in {"del_image", "del_profile", "del_project", "del_network"}
      /\ call[c].pc \in NodeDeleting /\ Unmoved /\ NodeKeeps
  BY DEF DeleteImageIfPresent, DeleteProfileIfPresent, DeleteProject, DeleteNetworkIfPresent,
     DeleteIfPresent, At, NodeDeleting
<1>2. incus \in Incus /\ AtNodes(call[c]) /\ UNCHANGED <<inst, resets>>
  BY <1>1, Deleter, CallHere DEF Unmoved, NodeKeeps
<1>3. CASE EndCall(c) /\ UNCHANGED incus
  BY <1>1, <1>3, PieceInUse
<1>4. CASE incus' = [incus EXCEPT !.image = FALSE] /\ Goto(c, "del_profile")
  <2>1. /\ incus' \in Incus /\ ~incus'.image /\ incus'.acl = incus.acl /\ incus'.net = incus.net
        /\ incus'.project = incus.project /\ incus'.stamp = incus.stamp
        /\ incus'.profile = incus.profile
    BY <1>2, <1>4 DEF Incus
  <2>2. incus = NoIncus => incus' = NoIncus
    BY <2>1, BareStaysBare
  <2>3. IncusPart' /\ InstancePart'
    BY <1>2, <2>1 DEF ResourceInv, WorldPart, IncusPart, InstancePart
  <2> QED
    BY <1>1, <1>4, <2>1, <2>2, <2>3, PieceGoes
<1>5. CASE /\ ~(incus.profile /\ Populated)
           /\ incus' = [incus EXCEPT !.profile = FALSE] /\ Goto(c, "del_project")
  <2>1. /\ incus' \in Incus /\ ~incus'.profile /\ incus'.acl = incus.acl /\ incus'.net = incus.net
        /\ incus'.project = incus.project /\ incus'.stamp = incus.stamp
        /\ incus'.image = incus.image
    BY <1>2, <1>5 DEF Incus
  <2>2. incus = NoIncus => incus' = NoIncus
    BY <2>1, BareStaysBare
  <2>3. IncusPart' /\ InstancePart'
    BY <1>2, <1>5, <2>1 DEF ResourceInv, WorldPart, IncusPart, InstancePart, Populated
  <2> QED
    BY <1>1, <1>5, <2>1, <2>2, <2>3, PieceGoes
<1>6. CASE /\ ~(incus.project /\ (Populated \/ incus.image \/ incus.profile))
           /\ incus' = [incus EXCEPT !.project = FALSE, !.stamp = 0] /\ Goto(c, "del_network")
  <2>1. /\ incus' \in Incus /\ ~incus'.project /\ incus'.acl = incus.acl /\ incus'.net = incus.net
        /\ incus'.profile = incus.profile /\ incus'.stamp = 0
        /\ incus'.image = incus.image
    <3>1. 0 \in Generations
      BY ProviderAssumption DEF Generations, ProviderAssumption
    <3> QED
      BY <1>2, <1>6, <3>1 DEF Incus
  <2>2. incus = NoIncus => incus' = NoIncus
    BY <2>1, BareStaysBare
  <2>3. 0 <= resets'
    BY <1>2, ProviderAssumption DEF ResourceInv, ProviderTypeOK, Generations, ProviderAssumption
  <2>4. IncusPart' /\ InstancePart'
    BY <1>2, <1>6, <2>1, <2>3 DEF ResourceInv, WorldPart, IncusPart, InstancePart, Populated
  <2> QED
    BY <1>1, <1>6, <2>1, <2>2, <2>4, PieceGoes
<1>7. CASE /\ call[c].pc = "del_network" /\ ~(incus.net # 0 /\ Populated)
           /\ incus' = [incus EXCEPT !.net = 0] /\ Goto(c, "del_acl")
  <2>1. /\ incus' \in Incus /\ incus'.net = 0 /\ incus'.acl = incus.acl
        /\ incus'.profile = incus.profile /\ incus'.stamp = incus.stamp
        /\ incus'.image = incus.image /\ incus'.project = incus.project /\ ~incus.project
    BY <1>2, <1>7, ProviderAssumption DEF Incus, ProviderAssumption, AtNodes
  <2>2. incus = NoIncus => incus' = NoIncus
    BY <2>1, BareStaysBare
  <2>3. IncusPart' /\ InstancePart'
    BY <1>2, <1>7, <2>1 DEF ResourceInv, WorldPart, IncusPart, InstancePart, Populated
  <2> QED
    BY <1>1, <1>7, <2>1, <2>2, <2>3, PieceGoes
<1> QED
  BY <1>3, <1>4, <1>5, <1>6, <1>7
  DEF DeleteImageIfPresent, DeleteProfileIfPresent, DeleteProject, DeleteNetworkIfPresent,
      DeleteIfPresent, At

LEMMA DeleteACLKept ==
  ASSUME ResourceInv, NEW c \in Callers, DeleteACLIfPresent(c)
  PROVE  ResourceInv'
<1>1. /\ call[c].pc = "del_acl" /\ call[c].pc \in NodeDeleting
      /\ UNCHANGED <<inst, job>> /\ NodeKeeps
  BY DEF DeleteACLIfPresent, At, NodeDeleting
<1>2. /\ incus \in Incus /\ AtNodes(call[c]) /\ call[c].pc \in Tears /\ kind = "node"
      /\ ~At(c, "idle")
  BY <1>1, Deleter, CallHere
<1>3. ~incus.project /\ incus.net = 0
  BY <1>1, <1>2 DEF AtNodes
<1>4. incus' = [incus EXCEPT !.acl = FALSE] /\ DeletionEnds(c)
  BY <1>3 DEF DeleteACLIfPresent
<1>5. /\ incus' \in Incus /\ ~incus'.acl /\ incus'.net = 0 /\ ~incus'.project
      /\ incus'.stamp = incus.stamp /\ incus'.image = incus.image
      /\ incus'.profile = incus.profile
  BY <1>2, <1>3, <1>4 DEF Incus
<1>6. IncusPart' /\ InstancePart'
  BY <1>1, <1>3, <1>5 DEF ResourceInv, WorldPart, IncusPart, InstancePart, NodeKeeps
<1>7. incus' = NoIncus
  <2>1. ~incus'.image /\ ~incus'.profile /\ incus'.stamp = 0
    BY <1>5, <1>6 DEF IncusPart
  <2> QED
    BY <1>5, <2>1 DEF Incus, NoIncus
<1> QED
  BY <1>1, <1>2, <1>3, <1>4, <1>5, <1>6, <1>7, NodeDeletionEnds

-----------------------------------------------------------------------------
(* What Incus does by itself.                                              *)

LEMMA NodeMoves ==
  ASSUME ResourceInv, NEW n \in Nodes,
         UNCHANGED <<kind, goal, resets, call, incus, k8s, world, failures>>,
         inst' \in [Nodes -> Instance], job' \in [Nodes -> Jobs],
         kind = "node", InstancePart',
         \A m \in Nodes : job'[m] \in {job[m], "none"},
         goal = "ready" => \A m \in Nodes : inst'[m].state # "none" /\ inst'[m].born = inst[m].born,
         goal = "released" => \A m \in Nodes : inst'[m].state = "none"
  PROVE  ResourceInv'
<1>1. ProviderTypeOK'
  BY DEF ResourceInv, ProviderTypeOK, world
<1>2. KindPart' /\ IncusPart' /\ ClusterPart' /\ GoalPart'
  BY DEF ResourceInv, WorldPart, KindPart, IncusPart, ClusterPart, GoalPart
<1>3. CallsPart'
  <2> SUFFICES ASSUME NEW c \in Callers, call[c].pc # "idle"
               PROVE  Entitled(c, call[c])' /\ AtNodes(call[c])' /\ AtJobs(call[c])' /\ AtCluster(c, call[c])'
    BY DEF CallsPart, Fits
  <2>1. Entitled(c, call[c]) /\ AtNodes(call[c]) /\ AtJobs(call[c]) /\ AtCluster(c, call[c])
    BY CallHere DEF At
  <2>2. Entitled(c, call[c])'
    BY <2>1 DEF Entitled
  <2>3. AtNodes(call[c])'
    BY <2>1 DEF AtNodes
  <2>4. AtJobs(call[c])'
    BY <2>1 DEF AtJobs, Passed
  <2>5. AtCluster(c, call[c])'
    BY <2>1 DEF AtCluster
  <2> QED
    BY <2>2, <2>3, <2>4, <2>5
<1>4. ReadyPart'
  BY DEF ResourceInv, ReadyPart
<1>5. GonePart'
  BY DEF ResourceInv, GonePart, Bare, Populated
<1> QED
  BY <1>1, <1>2, <1>3, <1>4, <1>5 DEF ResourceInv, WorldPart

LEMMA JobEndsKept ==
  ASSUME ResourceInv, NEW n \in Nodes, JobEnds(n)
  PROVE  ResourceInv'
<1>1. /\ inst \in [Nodes -> Instance] /\ job \in [Nodes -> Jobs] /\ incus \in Incus
      /\ resets \in Generations
      /\ UNCHANGED <<kind, goal, resets, call, incus, k8s, world, failures>>
  BY DEF ResourceInv, ProviderTypeOK, JobEnds
<1>2. kind = "node"
  BY DEF ResourceInv, WorldPart, KindPart, JobEnds
<1>3. job' \in [Nodes -> Jobs] /\ \A m \in Nodes : job'[m] \in {job[m], "none"}
  BY <1>1 DEF JobEnds, Jobs
<1>4. PICK i \in Instance :
        /\ inst' = [inst EXCEPT ![n] = i]
        /\ \/ i = inst[n]
           \/ /\ job[n] = "create" /\ Creatable /\ i.state = "stopped"
              /\ i.addr = incus.net /\ i.born = resets
           \/ /\ job[n] \in {"start", "stop"} /\ i.state # "none" /\ inst[n].state # "none"
              /\ i.addr = inst[n].addr /\ i.born = inst[n].born
           \/ job[n] = "delete" /\ i.state = "none"
  <2>1. job[n] \in {"create", "start", "stop", "delete"}
    BY <1>1 DEF JobEnds, Jobs
  <2>2. CASE job[n] = "create"
    <3> DEFINE i == [state |-> "stopped", init |-> "pending", addr |-> incus.net, born |-> resets]
    <3>1. i \in Instance /\ i.state = "stopped" /\ i.addr = incus.net /\ i.born = resets
      BY <1>1 DEF Instance, Incus
    <3>2. inst[n] \in Instance /\ inst' = [inst EXCEPT ![n] = IF Creatable /\ inst[n].state = "none" THEN i ELSE inst[n]]
      BY <1>1, <2>2 DEF JobEnds
    <3> HIDE DEF i
    <3> QED
      BY <2>2, <3>1, <3>2
  <2>3. CASE job[n] = "start"
    <3> DEFINE i == [inst[n] EXCEPT !.state = "running"]
    <3>1. i \in Instance /\ i.state = "running" /\ i.addr = inst[n].addr /\ i.born = inst[n].born
      BY <1>1 DEF Instance
    <3>2. inst[n] \in Instance /\ inst' = [inst EXCEPT ![n] = IF inst[n].state = "stopped" THEN i ELSE inst[n]]
      BY <1>1, <2>3 DEF JobEnds
    <3> HIDE DEF i
    <3> QED
      BY <2>3, <3>1, <3>2
  <2>4. CASE job[n] = "stop"
    <3> DEFINE i == [inst[n] EXCEPT !.state = "stopped"]
    <3>1. i \in Instance /\ i.state = "stopped" /\ i.addr = inst[n].addr /\ i.born = inst[n].born
      BY <1>1 DEF Instance
    <3>2. inst[n] \in Instance /\ inst' = [inst EXCEPT ![n] = IF inst[n].state = "running" THEN i ELSE inst[n]]
      BY <1>1, <2>4 DEF JobEnds
    <3> HIDE DEF i
    <3> QED
      BY <2>4, <3>1, <3>2
  <2>5. CASE job[n] = "delete"
    <3>1. NoInstance \in Instance /\ NoInstance.state = "none"
      BY ProviderAssumption DEF Instance, NoInstance, Generations, ProviderAssumption
    <3>2. inst' = [inst EXCEPT ![n] = NoInstance]
      BY <1>1, <2>5 DEF JobEnds
    <3> QED
      BY <2>5, <3>1, <3>2
  <2> QED
    BY <2>1, <2>2, <2>3, <2>4, <2>5
<1>5. inst' \in [Nodes -> Instance] /\ inst'[n] = i /\ \A m \in Nodes : m # n => inst'[m] = inst[m]
  BY <1>1, <1>4
<1>6. InstancePart'
  <2>1. ASSUME NEW m \in Nodes, inst'[m].state # "none"
        PROVE  /\ incus.project /\ incus.profile /\ incus.net # 0 /\ inst'[m].addr = incus.net
               /\ incus.stamp <= inst'[m].born /\ inst'[m].born <= resets
    <3>1. CASE inst[m].state # "none" /\ inst'[m].addr = inst[m].addr /\ inst'[m].born = inst[m].born
      BY <3>1 DEF ResourceInv, WorldPart, InstancePart
    <3>2. CASE m = n /\ Creatable /\ i.addr = incus.net /\ i.born = resets
      <4>1. incus.stamp <= resets /\ resets <= resets
        BY <1>1, ProviderAssumption DEF ResourceInv, WorldPart, IncusPart, Generations, ProviderAssumption
      <4> QED
        BY <1>5, <3>2, <4>1 DEF Creatable
    <3> QED
      BY <1>4, <1>5, <2>1, <3>1, <3>2
  <2> QED
    BY <1>1, <2>1 DEF InstancePart
<1>7. goal = "ready" => \A m \in Nodes : inst'[m].state # "none" /\ inst'[m].born = inst[m].born
  <2> SUFFICES ASSUME goal = "ready", NEW m \in Nodes
               PROVE  inst'[m].state # "none" /\ inst'[m].born = inst[m].born
    OBVIOUS
  <2>1. inst[m].state # "none" /\ job[n] \in {"none", "start"}
    BY <1>2 DEF ResourceInv, ReadyPart
  <2> QED
    BY <1>4, <1>5, <2>1
<1>8. goal = "released" => \A m \in Nodes : inst'[m].state = "none"
  BY <1>1, <1>6 DEF ResourceInv, GonePart, Bare, NoIncus, InstancePart
<1> QED
  BY <1>1, <1>2, <1>3, <1>5, <1>6, <1>7, <1>8, NodeMoves

LEMMA NodeInitializesKept ==
  ASSUME ResourceInv, NEW n \in Nodes, NEW result \in {"success", "failure"},
         NodeInitializes(n, result)
  PROVE  ResourceInv'
<1>1. /\ inst \in [Nodes -> Instance] /\ job' \in [Nodes -> Jobs] /\ UNCHANGED job
      /\ UNCHANGED <<kind, goal, resets, call, incus, k8s, world, failures>>
      /\ inst[n].state = "running"
  BY DEF ResourceInv, ProviderTypeOK, NodeInitializes
<1>2. kind = "node"
  BY <1>1 DEF ResourceInv, WorldPart, KindPart, NoInstance
<1> DEFINE i == [inst[n] EXCEPT !.init = result]
<1>3. /\ i \in Instance /\ i.state = inst[n].state /\ i.addr = inst[n].addr /\ i.born = inst[n].born
      /\ inst' = [inst EXCEPT ![n] = i]
  BY <1>1 DEF NodeInitializes, Instance
<1>4. /\ inst' \in [Nodes -> Instance]
      /\ \A m \in Nodes : /\ inst'[m].state = inst[m].state /\ inst'[m].addr = inst[m].addr
                          /\ inst'[m].born = inst[m].born
  <2> HIDE DEF i
  <2> QED BY <1>1, <1>3
<1>5. InstancePart'
  BY <1>1, <1>4 DEF ResourceInv, WorldPart, InstancePart
<1>6. /\ goal = "ready" => \A m \in Nodes : inst'[m].state # "none" /\ inst'[m].born = inst[m].born
      /\ goal = "released" => \A m \in Nodes : inst'[m].state = "none"
  BY <1>2, <1>4 DEF ResourceInv, ReadyPart, GonePart, Bare, Populated
<1> QED
  BY <1>1, <1>2, <1>4, <1>5, <1>6, NodeMoves

-----------------------------------------------------------------------------
(* Building a virtual cluster.                                             *)

LEMMA ClusterBuilder ==
  ASSUME ResourceInv, NEW c \in Callers, call[c].pc \in ClusterBuilding
  PROVE  /\ ~At(c, "idle") /\ c = ControllerCaller /\ kind # "node" /\ k8s \in Namespace
         /\ call \in [Callers -> Call] /\ AtCluster(c, call[c])
<1>1. ~At(c, "idle")
  BY DEF At, ClusterBuilding
<1>2. call[c].pc \notin Tears
  BY DEF ClusterBuilding, Tears, NodeDeleting, ClusterDeleting
<1>3. Entitled(c, call[c])
  BY <1>1, CallHere
<1> QED
  BY <1>1, <1>2, <1>3, CallHere DEF Entitled, ResourceInv, ProviderTypeOK

LEMMA ClusterBuildsOn ==
  ASSUME ResourceInv, NEW c \in Callers, call[c].pc \in ClusterBuilding,
         NEW pc \in ClusterBuilding, Goto(c, pc),
         UNCHANGED goal, ClusterKeeps, k8s' \in Namespace, ClusterPart',
         k8s'.state # "terminating", k8s'.state = "active" => k8s'.stamp = call[c].gen,
         k8s'.stamp \in {k8s.stamp, call[c].gen},
         pc \in {"plane", "kubeconfig", "terminal"} /\ k8s'.state = "active" => k8s'.policy,
         pc = "terminal" /\ k8s'.state = "active" => k8s'.secret
  PROVE  ResourceInv'
<1>1. /\ ~At(c, "idle") /\ c = ControllerCaller /\ kind # "node"
      /\ call \in [Callers -> Call] /\ AtCluster(c, call[c]) /\ Entitled(c, call[c])
  BY ClusterBuilder, CallHere
<1>2. PICK o \in Call : call' = [call EXCEPT ![c] = o] /\ o.pc = pc /\ o.gen = call[c].gen
  BY <1>1, GotoMoves DEF ClusterBuilding, Steps
<1>3. /\ pc \notin Tears /\ pc \notin NodeBuilding \cup NodeDeleting
      /\ pc \notin {"stopping", "removing", "created"} /\ pc \notin ClusterDeleting
      /\ pc \notin {"instance", "observe", "network", "create_network", "image", "profile"}
  BY DEF ClusterBuilding, Tears, NodeDeleting, ClusterDeleting, NodeBuilding
<1>4. Entitled(c, o)'
  BY <1>1, <1>2, <1>3 DEF Entitled, ClusterKeeps
<1>5. AtNodes(o)' /\ AtJobs(o)'
  BY <1>2, <1>3 DEF AtNodes, AtJobs, Passed, NodeDeleting
<1>6. AtCluster(c, o)'
  <2>1. call[c].gen <= call[c].gen
    BY <1>1, ProviderAssumption DEF Call, Generations, ProviderAssumption
  <2> QED
    BY <1>1, <1>2, <1>3, <2>1 DEF AtCluster
<1>7. Fits(c, o)'
  BY <1>4, <1>5, <1>6 DEF Fits
<1> QED
  BY <1>1, <1>2, <1>7, ClusterCall

LEMMA ClusterBuildEnds ==
  ASSUME ResourceInv, NEW c \in Callers, call[c].pc \in ClusterBuilding, EndCall(c),
         UNCHANGED <<goal, k8s>>, ClusterKeeps
  PROVE  ResourceInv'
BY ClusterBuilder, CallEnds DEF ClusterKeeps, ResourceInv, ProviderTypeOK

LEMMA NamespaceKept ==
  ASSUME ResourceInv, NEW c \in Callers, EnsureNamespace(c)
  PROVE  ResourceInv'
<1>1. call[c].pc \in ClusterBuilding /\ At(c, "namespace") /\ "access" \in ClusterBuilding
  BY DEF EnsureNamespace, At, ClusterBuilding
<1>2. /\ c = ControllerCaller /\ k8s \in Namespace /\ AtCluster(c, call[c]) /\ call \in [Callers -> Call]
      /\ Entitled(c, call[c]) /\ UNCHANGED goal /\ ClusterKeeps
  BY <1>1, ClusterBuilder, CallHere DEF EnsureNamespace
<1>3. CASE k8s.state # "absent"
  <2>1. UNCHANGED k8s /\ (Goto(c, "access") \/ EndCall(c))
    BY <1>3 DEF EnsureNamespace
  <2>2. ClusterPart'
    BY <1>2, <2>1 DEF ResourceInv, WorldPart, ClusterPart, ClusterKeeps
  <2>3. k8s.state # "terminating" /\ (k8s.state = "active" => k8s.stamp = call[c].gen)
    BY <1>1, <1>2 DEF AtCluster
  <2> QED
    BY <1>1, <1>2, <2>1, <2>2, <2>3, ClusterBuildsOn, ClusterBuildEnds
<1>4. CASE k8s.state = "absent"
  <2>1. k8s' = [NoNamespace EXCEPT !.state = "active", !.stamp = call[c].gen] /\ Goto(c, "access")
    BY <1>4 DEF EnsureNamespace
  <2>2. call[c].gen \in Generations /\ 0 \in Generations /\ call[c].gen <= resets
    BY <1>2, ProviderAssumption DEF Call, Generations, ProviderAssumption, Entitled
  <2>3. /\ k8s' \in Namespace /\ k8s'.state = "active" /\ k8s'.stamp = call[c].gen
        /\ k8s'.terminal = "none"
    BY <2>1, <2>2 DEF NoNamespace, Namespace
  <2>4. ClusterPart'
    BY <1>2, <2>2, <2>3 DEF ClusterPart, ClusterKeeps
  <2> QED
    BY <1>1, <1>2, <2>1, <2>3, <2>4, ClusterBuildsOn
<1> QED
  BY <1>3, <1>4

(* What is there already is kept; into a namespace that is active, what is *)
(* missing is added.                                                       *)
LEMMA AddedKept ==
  ASSUME ResourceInv, NEW c \in Callers, NEW pc \in ClusterBuilding, NEW next \in ClusterBuilding,
         NEW present, NEW after \in Namespace,
         EnsureInNamespace(c, pc, present, after, next), pc # "namespace",
         after.state = k8s.state, after.stamp = k8s.stamp,
         k8s.policy => after.policy, k8s.secret => after.secret,
         \/ after.terminal = k8s.terminal /\ after.born = k8s.born
         \/ pc = "terminal" /\ after.born = resets,
         next \in {"plane", "kubeconfig", "terminal"} =>
           \/ pc \in {"plane", "kubeconfig", "terminal"}
           \/ (IF present THEN k8s.policy ELSE after.policy),
         next = "terminal" => (IF present THEN k8s.secret ELSE after.secret)
  PROVE  ResourceInv'
<1>1. call[c].pc = pc
  BY DEF EnsureInNamespace, At
<1>2. /\ c = ControllerCaller /\ k8s \in Namespace /\ AtCluster(c, call[c]) /\ call \in [Callers -> Call]
      /\ ~At(c, "idle")
  BY <1>1, ClusterBuilder
<1>3. UNCHANGED goal /\ ClusterKeeps
  BY DEF EnsureInNamespace
<1>4. CASE EndCall(c) /\ UNCHANGED k8s
  BY <1>1, <1>3, <1>4, ClusterBuildEnds
<1>5. CASE Goto(c, next) /\ (IF present THEN UNCHANGED k8s ELSE k8s.state = "active" /\ k8s' = after)
  <2>1. /\ k8s' \in Namespace /\ k8s'.state = k8s.state /\ k8s'.stamp = k8s.stamp
        /\ k8s.policy => k8s'.policy
        /\ k8s.secret => k8s'.secret
    BY <1>2, <1>5
  <2>2. \/ k8s'.terminal = k8s.terminal /\ k8s'.born = k8s.born
        \/ pc = "terminal" /\ k8s'.born = resets /\ k8s.state = "active"
    BY <1>5
  <2>3. k8s.state # "terminating" /\ (k8s.state = "active" => k8s.stamp = call[c].gen)
    BY <1>1, <1>2 DEF AtCluster
  <2>4. pc \in {"plane", "kubeconfig", "terminal"} /\ k8s.state = "active" => k8s.policy
    BY <1>1, <1>2 DEF AtCluster
  <2>5. pc = "terminal" /\ k8s.state = "active" => k8s.secret
    BY <1>1, <1>2 DEF AtCluster
  <2>6. next \in {"plane", "kubeconfig", "terminal"} /\ k8s'.state = "active" => k8s'.policy
    BY <1>5, <2>1, <2>4
  <2>7. next = "terminal" /\ k8s'.state = "active" => k8s'.secret
    BY <1>5
  <2>8. ClusterPart'
    <3>1. k8s.stamp <= resets /\ resets <= resets /\ resets' = resets
      BY <1>3, ProviderAssumption
      DEF ResourceInv, WorldPart, ClusterPart, ProviderTypeOK, Generations, ProviderAssumption, ClusterKeeps
    <3>2. k8s'.terminal # "none" => k8s'.stamp <= k8s'.born /\ k8s'.born <= resets
      BY <2>1, <2>2, <3>1 DEF ResourceInv, WorldPart, ClusterPart
    <3>3. k8s'.state = "active" /\ k8s'.terminal # "none" => k8s'.policy /\ k8s'.secret
      <4> SUFFICES ASSUME k8s'.state = "active", k8s'.terminal # "none"
                   PROVE  k8s.policy /\ k8s.secret
        BY <2>1
      <4>1. CASE k8s'.terminal = k8s.terminal
        BY <2>1, <4>1 DEF ResourceInv, WorldPart, ClusterPart
      <4>2. CASE pc = "terminal"
        BY <2>1, <2>4, <2>5, <4>2
      <4> QED
        BY <2>2, <4>1, <4>2
    <3>4. k8s'.state = "absent" => k8s'.terminal = "none"
      BY <2>1, <2>2 DEF ResourceInv, WorldPart, ClusterPart
    <3> QED
      BY <2>1, <2>3, <3>1, <3>2, <3>3, <3>4 DEF ClusterPart
  <2> QED
    BY <1>1, <1>3, <1>5, <2>1, <2>3, <2>6, <2>7, <2>8, ClusterBuildsOn
<1> QED
  BY <1>4, <1>5 DEF EnsureInNamespace

LEMMA EnsureClusterKept ==
  ASSUME ResourceInv, NEW c \in Callers,
         \/ EnsureAccess(c) \/ EnsureVCluster(c) \/ EnsureTerminalNetworkPolicy(c)
         \/ UpsertKubeconfig(c) \/ EnsureTerminal(c)
  PROVE  ResourceInv'
<1>1. k8s \in Namespace /\ resets \in Generations
  BY DEF ResourceInv, ProviderTypeOK
<1>2. {"access", "vcluster", "policy", "plane", "kubeconfig", "terminal", "observe_terminal"}
        \subseteq ClusterBuilding
  BY DEF ClusterBuilding
<1>3. CASE EnsureAccess(c)
  <2> DEFINE after == [k8s EXCEPT !.access = TRUE]
  <2>1. /\ after \in Namespace /\ after.state = k8s.state /\ after.stamp = k8s.stamp
        /\ after.policy = k8s.policy /\ after.secret = k8s.secret
        /\ after.terminal = k8s.terminal /\ after.born = k8s.born
    BY <1>1 DEF Namespace
  <2>2. EnsureInNamespace(c, "access", k8s.access, after, "vcluster")
    BY <1>3 DEF EnsureAccess
  <2> HIDE DEF after
  <2> QED
    BY <1>2, <2>1, <2>2, AddedKept
<1>4. CASE EnsureVCluster(c)
  <2> DEFINE after == [k8s EXCEPT !.vcluster = "whole"]
  <2>1. /\ after \in Namespace /\ after.state = k8s.state /\ after.stamp = k8s.stamp
        /\ after.policy = k8s.policy /\ after.secret = k8s.secret
        /\ after.terminal = k8s.terminal /\ after.born = k8s.born
    BY <1>1 DEF Namespace
  <2>2. EnsureInNamespace(c, "vcluster", VClusterMatches, after, "policy")
    BY <1>4 DEF EnsureVCluster, CreateOrUpgrade
  <2> HIDE DEF after
  <2> QED
    BY <1>2, <2>1, <2>2, AddedKept
<1>5. CASE EnsureTerminalNetworkPolicy(c)
  <2> DEFINE after == [k8s EXCEPT !.policy = TRUE]
  <2>1. /\ after \in Namespace /\ after.state = k8s.state /\ after.stamp = k8s.stamp
        /\ after.policy /\ after.secret = k8s.secret
        /\ after.terminal = k8s.terminal /\ after.born = k8s.born
    BY <1>1 DEF Namespace
  <2>2. EnsureInNamespace(c, "policy", k8s.policy, after, "plane")
    BY <1>5 DEF EnsureTerminalNetworkPolicy
  <2> HIDE DEF after
  <2> QED
    BY <1>2, <2>1, <2>2, AddedKept
<1>6. CASE UpsertKubeconfig(c)
  <2> DEFINE after == [k8s EXCEPT !.secret = TRUE]
  <2>1. /\ after \in Namespace /\ after.state = k8s.state /\ after.stamp = k8s.stamp
        /\ after.policy = k8s.policy /\ after.secret
        /\ after.terminal = k8s.terminal /\ after.born = k8s.born
    BY <1>1 DEF Namespace
  <2>2. EnsureInNamespace(c, "kubeconfig", k8s.secret, after, "terminal")
    BY <1>6 DEF UpsertKubeconfig
  <2> HIDE DEF after
  <2> QED
    BY <1>2, <2>1, <2>2, AddedKept
<1>7. CASE EnsureTerminal(c)
  <2> DEFINE after == [k8s EXCEPT !.terminal = "starting", !.born = resets]
  <2>1. /\ after \in Namespace /\ after.state = k8s.state /\ after.stamp = k8s.stamp
        /\ after.policy = k8s.policy /\ after.secret = k8s.secret
        /\ after.born = resets
    BY <1>1 DEF Namespace
  <2>2. EnsureInNamespace(c, "terminal", k8s.terminal # "none", after, "observe_terminal")
    BY <1>7 DEF EnsureTerminal
  <2> HIDE DEF after
  <2> QED
    BY <1>2, <2>1, <2>2, AddedKept
<1> QED
  BY <1>3, <1>4, <1>5, <1>6, <1>7

LEMMA ControlPlaneReadyKept ==
  ASSUME ResourceInv, NEW c \in Callers, ControlPlaneReady(c)
  PROVE  ResourceInv'
<1>1. /\ call[c].pc \in ClusterBuilding /\ call[c].pc = "plane" /\ "kubeconfig" \in ClusterBuilding
      /\ UNCHANGED <<goal, k8s>> /\ ClusterKeeps
  BY DEF ControlPlaneReady, At, ClusterBuilding
<1>2. c = ControllerCaller /\ k8s \in Namespace /\ AtCluster(c, call[c])
  BY <1>1, ClusterBuilder
<1>3. CASE EndCall(c)
  BY <1>1, <1>3, ClusterBuildEnds
<1>4. CASE Goto(c, "kubeconfig")
  <2>1. ClusterPart'
    BY <1>1 DEF ResourceInv, WorldPart, ClusterPart, ClusterKeeps
  <2>2. /\ k8s.state # "terminating" /\ (k8s.state = "active" => k8s.stamp = call[c].gen)
        /\ k8s.state = "active" => k8s.policy
    BY <1>1, <1>2 DEF AtCluster
  <2> QED
    BY <1>1, <1>2, <1>4, <2>1, <2>2, ClusterBuildsOn
<1> QED
  BY <1>3, <1>4 DEF ControlPlaneReady

LEMMA ObserveTerminalKept ==
  ASSUME ResourceInv, NEW c \in Callers, ObserveTerminal(c)
  PROVE  ResourceInv'
<1>1. call[c].pc = "observe_terminal" /\ call[c].pc \in ClusterBuilding
  BY DEF ObserveTerminal, At, ClusterBuilding
<1>2. /\ c = ControllerCaller /\ kind # "node" /\ ~At(c, "idle") /\ k8s \in Namespace
      /\ AtCluster(c, call[c])
  BY <1>1, ClusterBuilder
<1>3. EndCall(c) /\ UNCHANGED k8s /\ ClusterKeeps
  BY DEF ObserveTerminal, Observed
<1>4. CASE goal' = goal
  BY <1>1, <1>3, <1>4, ClusterBuildEnds
<1>5. CASE goal' = "ready" /\ call[c].gen = resets /\ k8s.terminal = "success"
  <2>1. CallsPart' /\ call' \in [Callers -> Call]
    BY <1>2, <1>3, EndCallMoves, OneMoves DEF ClusterKeeps
  <2>2. ProviderTypeOK'
    BY <1>3, <1>5, <2>1 DEF ResourceInv, ProviderTypeOK, ClusterKeeps, node, world, Goals
  <2>3. KindPart' /\ IncusPart' /\ InstancePart' /\ GoalPart'
    BY <1>3, <1>5
    DEF ResourceInv, WorldPart, KindPart, IncusPart, InstancePart, GoalPart, ClusterKeeps, node
  <2>4. k8s.state = "active" /\ k8s.stamp = resets
    BY <1>1, <1>2, <1>5 DEF AtCluster, ResourceInv, WorldPart, ClusterPart, Namespace
  <2>5. ClusterPart'
    BY <1>3, <2>4 DEF ResourceInv, WorldPart, ClusterPart, ClusterKeeps
  <2>6. GonePart'
    BY <1>5 DEF GonePart
  <2>7. ReadyPart'
    <3>1. k8s.stamp <= k8s.born /\ k8s.born <= resets
      BY <1>5 DEF ResourceInv, WorldPart, ClusterPart
    <3>2. k8s.born = resets
      BY <2>4, <3>1, ProviderAssumption
      DEF ResourceInv, ProviderTypeOK, Namespace, Generations, ProviderAssumption
    <3> QED
      BY <1>2, <1>3, <1>5, <2>4, <3>2 DEF ReadyPart, ClusterKeeps
  <2> QED
    BY <2>1, <2>2, <2>3, <2>5, <2>6, <2>7 DEF ResourceInv, WorldPart
<1> QED
  BY <1>4, <1>5 DEF ObserveTerminal, Observed

LEMMA VClusterTimesOutKept ==
  ASSUME ResourceInv, NEW c \in Callers, VClusterTimesOut(c)
  PROVE  ResourceInv'
<1>1. call[c].pc \in ClusterBuilding
  BY DEF VClusterTimesOut, At, ClusterBuilding
<1>2. /\ c = ControllerCaller /\ kind # "node" /\ ~At(c, "idle") /\ k8s \in Namespace
      /\ Entitled(c, call[c])
  BY <1>1, ClusterBuilder, CallHere
<1>3. /\ EndCall(c) /\ UNCHANGED <<kind, goal, resets, node, world>>
      /\ failures' \in 0 .. MaxFailures
  BY ProviderAssumption
  DEF VClusterTimesOut, Failure, ResourceInv, ProviderTypeOK, ProviderAssumption
<1>4. /\ k8s' \in Namespace /\ k8s'.state = k8s.state /\ k8s'.stamp = k8s.stamp
      /\ k8s'.terminal = k8s.terminal /\ k8s'.born = k8s.born
      /\ k8s'.policy = k8s.policy /\ k8s'.secret = k8s.secret
  BY <1>2 DEF VClusterTimesOut, Namespace
<1>5. CallsPart' /\ call' \in [Callers -> Call]
  BY <1>2, <1>3, EndCallMoves, OneMoves
<1>6. ProviderTypeOK'
  BY <1>3, <1>4, <1>5 DEF ResourceInv, ProviderTypeOK, node, world
<1>7. KindPart' /\ IncusPart' /\ InstancePart' /\ GoalPart' /\ ClusterPart'
  BY <1>2, <1>3, <1>4
  DEF ResourceInv, WorldPart, KindPart, IncusPart, InstancePart, GoalPart, ClusterPart, node
<1>8. ReadyPart' /\ GonePart'
  BY <1>2, <1>3 DEF Entitled, ReadyPart, GonePart
<1> QED
  BY <1>5, <1>6, <1>7, <1>8 DEF ResourceInv, WorldPart

-----------------------------------------------------------------------------
(* Deleting a virtual cluster.                                             *)

LEMMA DeleteVK8sKept ==
  ASSUME ResourceInv, NEW c \in Callers, DeleteVK8s(c)
  PROVE  ResourceInv'
<1>1. /\ call[c].pc = "delete" /\ call[c].pc \in Tears /\ ~At(c, "idle") /\ kind # "node"
      /\ UNCHANGED k8s /\ ClusterKeeps
  BY DEF DeleteVK8s, At, Tears
<1>2. /\ k8s \in Namespace /\ AtCluster(c, call[c]) /\ Entitled(c, call[c])
      /\ call \in [Callers -> Call]
  BY <1>1, CallHere DEF ResourceInv, ProviderTypeOK
<1>3. ClusterPart \/ goal' = goal
  BY DEF ResourceInv, WorldPart
<1>4. CASE goal' = goal /\ EndCall(c)
  BY <1>1, <1>4, CallEnds DEF ClusterKeeps, ResourceInv, ProviderTypeOK
<1>5. CASE goal' = goal /\ Goto(c, "del_vcluster") /\ k8s.state # "absent" /\ ~OwnRebuild(k8s.stamp, call[c].gen)
  <2>1. PICK o \in Call : /\ call' = [call EXCEPT ![c] = o]
                          /\ o.pc = "del_vcluster" /\ o.gen = call[c].gen
    BY <1>2, <1>5, GotoMoves DEF Steps
  <2>2. Entitled(c, o)'
    BY <1>1, <1>2, <1>5, <2>1
    DEF Entitled, Tears, ClusterDeleting, NodeDeleting, NodeBuilding, ClusterKeeps
  <2>3. AtNodes(o)' /\ AtJobs(o)'
    BY <2>1 DEF AtNodes, AtJobs, Passed, NodeBuilding
  <2>4. AtCluster(c, o)'
    <3> SUFFICES ASSUME c = ControllerCaller
                 PROVE  AtCluster(c, o)'
      BY DEF AtCluster
    <3>1. call[c].gen > 0 /\ k8s.stamp <= call[c].gen /\ call[c].gen \in Nat /\ k8s.stamp \in Nat
      BY <1>1, <1>2, ProviderAssumption DEF Entitled, AtCluster, Call, Namespace, Generations, ProviderAssumption
    <3>2. k8s.stamp < call[c].gen
      BY <1>5, <3>1 DEF OwnRebuild
    <3> QED
      BY <1>1, <1>2, <2>1, <3>2 DEF AtCluster, ClusterBuilding
  <2>5. Fits(c, o)'
    BY <2>2, <2>3, <2>4 DEF Fits
  <2>6. ClusterPart'
    BY <1>1, <1>5 DEF ResourceInv, WorldPart, ClusterPart, ClusterKeeps
  <2> QED
    BY <1>1, <1>2, <1>5, <2>1, <2>5, <2>6, ClusterCall
<1>6. CASE DeletionEnds(c) /\ (k8s.state = "absent" \/ OwnRebuild(k8s.stamp, call[c].gen))
  <2>1. CASE c = ControllerCaller
    <3>1. Goto(c, "namespace") /\ UNCHANGED goal
      BY <1>1, <1>6, <2>1 DEF DeletionEnds
    <3>2. PICK o \in Call : /\ call' = [call EXCEPT ![c] = o]
                            /\ o.pc = "namespace" /\ o.gen = call[c].gen
      BY <1>2, <3>1, GotoMoves DEF Steps
    <3>3. Entitled(c, o)'
      BY <1>1, <1>2, <2>1, <3>1, <3>2
      DEF Entitled, Tears, ClusterDeleting, NodeDeleting, NodeBuilding, ClusterKeeps
    <3>4. AtNodes(o)' /\ AtJobs(o)'
      BY <3>2 DEF AtNodes, AtJobs, Passed, NodeBuilding
    <3>5. k8s.state # "terminating" /\ (k8s.state = "active" => k8s.stamp = call[c].gen)
      BY <1>2, <1>6, <2>1, ProviderAssumption
      DEF AtCluster, OwnRebuild, Call, Generations, ProviderAssumption
    <3>6. AtCluster(c, o)'
      BY <1>1, <1>2, <2>1, <3>2, <3>5 DEF AtCluster, ClusterDeleting
    <3>7. Fits(c, o)'
      BY <3>3, <3>4, <3>6 DEF Fits
    <3>8. ClusterPart'
      BY <1>1, <3>1 DEF ResourceInv, WorldPart, ClusterPart, ClusterKeeps
    <3> QED
      BY <1>1, <1>2, <2>1, <3>1, <3>2, <3>7, <3>8, ClusterCall
  <2>2. CASE c # ControllerCaller
    <3>1. EndCall(c) /\ goal' = "released"
      BY <1>6, <2>2 DEF DeletionEnds
    <3>2. k8s.state = "absent"
      BY <1>2, <1>6, <2>2 DEF Entitled, OwnRebuild
    <3>3. CallsPart' /\ call' \in [Callers -> Call]
      BY <1>1, <3>1, EndCallMoves, OneMoves DEF ClusterKeeps, node, Wanes
    <3>4. ProviderTypeOK'
      BY <1>1, <3>1, <3>3 DEF ResourceInv, ProviderTypeOK, ClusterKeeps, node, world, Goals
    <3>5. KindPart' /\ IncusPart' /\ InstancePart' /\ GoalPart' /\ ClusterPart'
      BY <1>1, <3>1
      DEF ResourceInv, WorldPart, KindPart, IncusPart, InstancePart, GoalPart, ClusterPart, ClusterKeeps, node
    <3>6. incus = NoIncus /\ ~Populated
      BY <1>1 DEF ResourceInv, WorldPart, KindPart, Populated, NoInstance
    <3>7. ReadyPart' /\ GonePart'
      BY <1>1, <3>1, <3>2, <3>6 DEF ReadyPart, GonePart, Bare, Populated, ClusterKeeps, node
    <3> QED
      BY <3>3, <3>4, <3>5, <3>7 DEF ResourceInv, WorldPart
  <2> QED
    BY <2>1, <2>2
<1> QED
  BY <1>4, <1>5, <1>6 DEF DeleteVK8s

LEMMA DeleteVClusterKept ==
  ASSUME ResourceInv, NEW c \in Callers, DeleteVCluster(c)
  PROVE  ResourceInv'
<1>1. /\ call[c].pc = "del_vcluster" /\ call[c].pc \in ClusterDeleting /\ ~At(c, "idle")
      /\ UNCHANGED goal /\ ClusterKeeps
  BY DEF DeleteVCluster, At, ClusterDeleting
<1>2. /\ k8s \in Namespace /\ AtCluster(c, call[c]) /\ Entitled(c, call[c])
      /\ call \in [Callers -> Call] /\ kind # "node"
  BY <1>1, CallHere DEF ResourceInv, ProviderTypeOK, Entitled
<1>3. PICK o \in Call : /\ call' = [call EXCEPT ![c] = o]
                        /\ o.pc = "del_namespace" /\ o.gen = call[c].gen
  BY <1>2, GotoMoves DEF DeleteVCluster, Steps
<1>4. /\ k8s' \in Namespace /\ k8s'.state = k8s.state /\ k8s'.stamp = k8s.stamp
      /\ k8s'.terminal = k8s.terminal /\ k8s'.born = k8s.born
      /\ k8s'.policy = k8s.policy /\ k8s'.secret = k8s.secret
  BY <1>2 DEF DeleteVCluster, Namespace
<1>5. Entitled(c, o)'
  BY <1>1, <1>2, <1>3
  DEF Entitled, Tears, ClusterDeleting, NodeDeleting, NodeBuilding, ClusterKeeps
<1>6. AtNodes(o)' /\ AtJobs(o)'
  BY <1>3 DEF AtNodes, AtJobs, Passed, NodeBuilding
<1>7. AtCluster(c, o)'
  BY <1>1, <1>2, <1>3, <1>4 DEF AtCluster, ClusterBuilding
<1>8. Fits(c, o)'
  BY <1>5, <1>6, <1>7 DEF Fits
<1>9. ClusterPart'
  BY <1>1, <1>4 DEF ResourceInv, WorldPart, ClusterPart, ClusterKeeps
<1> QED
  BY <1>1, <1>2, <1>3, <1>4, <1>8, <1>9, ClusterCall

LEMMA DeleteNamespaceKept ==
  ASSUME ResourceInv, NEW c \in Callers, DeleteNamespace(c)
  PROVE  ResourceInv'
<1>1. /\ call[c].pc \in ClusterDeleting /\ ~At(c, "idle") /\ UNCHANGED goal /\ ClusterKeeps
      /\ EndCall(c)
  BY DEF DeleteNamespace, At, ClusterDeleting
<1>2. /\ k8s \in Namespace /\ AtCluster(c, call[c]) /\ Entitled(c, call[c]) /\ kind # "node"
      /\ call[c] \in Call
  BY <1>1, CallHere DEF ResourceInv, ProviderTypeOK, Entitled
<1>3. PICK o \in Call : call' = [call EXCEPT ![c] = o] /\ Fits(c, o)'
  BY <1>1, EndCallMoves
<1>4. /\ k8s' \in Namespace /\ k8s'.stamp = k8s.stamp
      /\ k8s'.terminal = k8s.terminal /\ k8s'.born = k8s.born
      /\ \/ k8s' = k8s
         \/ k8s.state = "active" /\ k8s'.state = "terminating"
  BY <1>2 DEF DeleteNamespace, Namespace
<1>5. ClusterPart'
  <2>1. k8s' # k8s /\ goal \notin {"release", "released"} => k8s.stamp < resets
    <3> SUFFICES ASSUME k8s' # k8s, goal \notin {"release", "released"}
                 PROVE  k8s.stamp < resets
      OBVIOUS
    <3>1. c = ControllerCaller /\ call[c].gen <= resets
      BY <1>2 DEF Entitled
    <3>2. k8s.stamp < call[c].gen
      BY <1>1, <1>2, <1>4, <3>1 DEF AtCluster
    <3>3. k8s.stamp \in Nat /\ call[c].gen \in Nat /\ resets \in Nat
      BY <1>2, ProviderAssumption
      DEF Call, Namespace, Generations, ProviderAssumption, ResourceInv, ProviderTypeOK
    <3> QED
      BY <3>1, <3>2, <3>3
  <2> QED
    BY <1>1, <1>4, <2>1 DEF ResourceInv, WorldPart, ClusterPart, ClusterKeeps
<1>6. k8s.state = "absent" => k8s'.state = "absent"
  BY <1>4
<1> QED
  BY <1>1, <1>2, <1>3, <1>4, <1>5, <1>6, ClusterCall

-----------------------------------------------------------------------------
(* What Kubernetes does by itself.                                         *)

LEMMA ClusterMoves ==
  ASSUME ResourceInv, UNCHANGED <<kind, goal, resets, call, node, world, failures>>,
         kind # "node", k8s' \in Namespace, ClusterPart',
         \/ k8s' = NoNamespace /\ k8s.state = "terminating"
         \/ /\ k8s.state = "active" /\ k8s'.state = "active" /\ k8s'.stamp = k8s.stamp
            /\ k8s'.born = k8s.born /\ k8s'.policy = k8s.policy /\ k8s'.secret = k8s.secret
            /\ k8s.terminal # "none" => k8s'.terminal # "none"
  PROVE  ResourceInv'
<1>1. ProviderTypeOK'
  BY DEF ResourceInv, ProviderTypeOK, node, world
<1>2. KindPart' /\ IncusPart' /\ InstancePart' /\ GoalPart'
  BY DEF ResourceInv, WorldPart, KindPart, IncusPart, InstancePart, GoalPart, node
<1>3. CallsPart'
  <2> SUFFICES ASSUME NEW c \in Callers, call[c].pc # "idle"
               PROVE  Entitled(c, call[c])' /\ AtNodes(call[c])' /\ AtJobs(call[c])' /\ AtCluster(c, call[c])'
    BY DEF CallsPart, Fits
  <2>1. /\ Entitled(c, call[c]) /\ AtNodes(call[c]) /\ AtJobs(call[c]) /\ AtCluster(c, call[c])
        /\ call[c] \in Call
    BY CallHere DEF At
  <2>2. Entitled(c, call[c])'
    BY <2>1 DEF Entitled
  <2>3. AtNodes(call[c])'
    BY <2>1 DEF AtNodes, node
  <2>4. AtJobs(call[c])'
    BY <2>1 DEF AtJobs, Passed, node
  <2>5. AtCluster(c, call[c])'
    <3>1. CASE k8s' = NoNamespace
      <4>1. 0 <= call[c].gen
        BY <2>1, ProviderAssumption DEF Call, Generations, ProviderAssumption
      <4> QED
        BY <3>1, <4>1 DEF AtCluster, NoNamespace
    <3>2. CASE k8s.state = "active" /\ k8s'.state = "active"
      BY <2>1, <3>2 DEF AtCluster, NoNamespace
    <3> QED
      BY <3>1, <3>2
  <2> QED
    BY <2>2, <2>3, <2>4, <2>5
<1>4. ReadyPart' /\ GonePart'
  BY DEF ResourceInv, ReadyPart, GonePart, Bare, Populated, NoNamespace, node
<1> QED
  BY <1>1, <1>2, <1>3, <1>4 DEF ResourceInv, WorldPart

LEMMA KubernetesKept ==
  ASSUME ResourceInv,
         \/ NamespaceGoes \/ ControlPlaneStarts
         \/ \E result \in {"success", "failure"} : TerminalInitializes(result)
  PROVE  ResourceInv'
<1>1. /\ UNCHANGED <<kind, goal, resets, call, node, world, failures>> /\ k8s \in Namespace
      /\ k8s.state # "absent"
  BY DEF NamespaceGoes, ControlPlaneStarts, TerminalInitializes, ResourceInv, ProviderTypeOK
<1>2. kind # "node"
  BY <1>1 DEF ResourceInv, WorldPart, KindPart, NoNamespace
<1>3. CASE NamespaceGoes
  <2>1. k8s' = NoNamespace /\ k8s.state = "terminating"
    BY <1>3 DEF NamespaceGoes
  <2>2. NoNamespace \in Namespace /\ 0 <= resets
    BY ProviderAssumption
    DEF Namespace, NoNamespace, Generations, ProviderAssumption, ResourceInv, ProviderTypeOK
  <2>3. ClusterPart'
    BY <1>1, <2>1, <2>2 DEF ClusterPart, NoNamespace
  <2> QED
    BY <1>1, <1>2, <2>1, <2>2, <2>3, ClusterMoves
<1>4. CASE ControlPlaneStarts
  <2>1. /\ k8s' \in Namespace /\ k8s'.state = k8s.state /\ k8s'.stamp = k8s.stamp
        /\ k8s'.terminal = k8s.terminal /\ k8s'.born = k8s.born
        /\ k8s'.policy = k8s.policy /\ k8s'.secret = k8s.secret /\ k8s.state = "active"
    BY <1>1, <1>4 DEF ControlPlaneStarts, Namespace
  <2>2. ClusterPart'
    BY <1>1, <2>1 DEF ResourceInv, WorldPart, ClusterPart
  <2> QED
    BY <1>1, <1>2, <2>1, <2>2, ClusterMoves
<1>5. ASSUME NEW result \in {"success", "failure"}, TerminalInitializes(result)
      PROVE  ResourceInv'
  <2>1. /\ k8s' \in Namespace /\ k8s'.state = k8s.state /\ k8s'.stamp = k8s.stamp
        /\ k8s'.terminal # "none" /\ k8s.terminal # "none" /\ k8s'.born = k8s.born
        /\ k8s'.policy = k8s.policy /\ k8s'.secret = k8s.secret /\ k8s.state = "active"
    BY <1>1, <1>5 DEF TerminalInitializes, Namespace
  <2>2. ClusterPart'
    BY <1>1, <2>1 DEF ResourceInv, WorldPart, ClusterPart
  <2> QED
    BY <1>1, <1>2, <2>1, <2>2, ClusterMoves
<1> QED
  BY <1>3, <1>4, <1>5

-----------------------------------------------------------------------------
(* Beginning and ending a call, and what is asked for.                     *)

LEMMA StartCallKept ==
  ASSUME ResourceInv, StartCall
  PROVE  ResourceInv'
<1> DEFINE c == ControllerCaller
<1> DEFINE m == [NoCall EXCEPT !.pc = FirstStep(c), !.gen = IF goal = "reset" THEN resets ELSE 0]
<1>1. /\ goal \in {"provision", "reset"} /\ call[c].pc = "idle" /\ c \in Callers
      /\ call' = [call EXCEPT ![c] = m]
      /\ UNCHANGED <<kind, goal, resets, node, k8s, world, failures>>
  BY DEF StartCall, At, Callers
<1>2. /\ resets \in Generations /\ call \in [Callers -> Call] /\ 0 \in Generations
      /\ 0 <= resets /\ resets <= resets
  BY ProviderAssumption DEF ResourceInv, ProviderTypeOK, Generations, ProviderAssumption
<1>3. PICK o \in Call :
        /\ call' = [call EXCEPT ![c] = o]
        /\ o.gen = (IF goal = "reset" THEN resets ELSE 0)
        /\ o.pc = (IF goal = "provision" THEN IF kind = "node" THEN "acl" ELSE "namespace" ELSE "delete")
  <2>1. /\ m \in Call /\ m.gen = (IF goal = "reset" THEN resets ELSE 0)
        /\ m.pc = (IF goal = "provision" THEN IF kind = "node" THEN "acl" ELSE "namespace" ELSE "delete")
    BY <1>1, <1>2, RestFits DEF FirstStep, NoCall, Call, Steps
  <2> QED
    BY <1>1, <2>1
<1>4. o.gen = resets /\ (o.pc = "delete" => resets > 0)
  BY <1>1, <1>2, <1>3 DEF ResourceInv, WorldPart, GoalPart
<1> HIDE DEF m
<1>5. Entitled(c, o)'
  BY <1>1, <1>2, <1>3, <1>4
  DEF Entitled, NodeBuilding, NodeDeleting, ClusterBuilding, ClusterDeleting, Tears
<1>6. AtNodes(o)'
  <2>1. incus.project /\ o.pc = "acl" => incus.stamp = o.gen
    <3> SUFFICES ASSUME o.pc = "acl" PROVE incus.stamp = o.gen
      OBVIOUS
    <3>1. resets = 0
      BY <1>1, <1>3 DEF ResourceInv, WorldPart, GoalPart
    <3>2. incus.stamp \in Nat /\ incus.stamp <= 0
      BY <3>1, ProviderAssumption
      DEF ResourceInv, WorldPart, IncusPart, ProviderTypeOK, Incus, Generations, ProviderAssumption
    <3> QED
      BY <1>4, <3>1, <3>2
  <2> QED
    BY <1>1, <1>3, <2>1 DEF AtNodes, NodeBuilding, node
<1>7. AtJobs(o)'
  BY <1>3 DEF AtJobs, Passed
<1>8. AtCluster(c, o)'
  <2>1. k8s.stamp <= resets /\ k8s.stamp \in Nat
    BY ProviderAssumption
    DEF ResourceInv, WorldPart, ClusterPart, ProviderTypeOK, Namespace, Generations, ProviderAssumption
  <2>2. k8s.state = "terminating" => k8s.stamp < resets
    BY <1>1 DEF ResourceInv, WorldPart, ClusterPart
  <2>3. o.pc = "namespace" => resets = 0
    BY <1>1, <1>3 DEF ResourceInv, WorldPart, GoalPart
  <2>4. o.pc = "namespace" => k8s.state # "terminating" /\ k8s.stamp = resets
    BY <2>1, <2>2, <2>3
  <2>5. o.pc \notin ClusterDeleting /\ (o.pc \in ClusterBuilding => o.pc = "namespace")
    BY <1>3 DEF ClusterBuilding, ClusterDeleting
  <2> QED
    BY <1>1, <1>3, <1>4, <2>1, <2>2, <2>4, <2>5 DEF AtCluster
<1>9. CallsPart' /\ call' \in [Callers -> Call]
  <2>1. Fits(c, o)'
    BY <1>5, <1>6, <1>7, <1>8 DEF Fits
  <2>2. ASSUME NEW d \in Callers, d # c PROVE Fits(d, call[d])'
    <3>1. call'[d] = call[d] /\ call[d].pc = "idle"
      BY <1>1, <1>2, <1>3, <2>2 DEF ResourceInv, CallsPart, Fits, Entitled
    <3> QED
      BY <3>1 DEF Fits
  <2>3. call'[c] = o
    BY <1>1, <1>2, <1>3
  <2> QED
    BY <1>1, <1>2, <1>3, <2>1, <2>2, <2>3 DEF CallsPart
<1>10. ProviderTypeOK'
  BY <1>1, <1>9 DEF ResourceInv, ProviderTypeOK, node, world
<1>11. KindPart' /\ IncusPart' /\ InstancePart' /\ ClusterPart' /\ GoalPart'
  BY <1>1
  DEF ResourceInv, WorldPart, KindPart, IncusPart, InstancePart, ClusterPart, GoalPart, node
<1>12. ReadyPart' /\ GonePart'
  BY <1>1 DEF ReadyPart, GonePart
<1> QED
  BY <1>9, <1>10, <1>11, <1>12 DEF ResourceInv, WorldPart

LEMMA StartReleaseKept ==
  ASSUME ResourceInv, NEW r \in ReaperCallers, StartRelease(r)
  PROVE  ResourceInv'
<1> DEFINE o == [NoCall EXCEPT !.pc = "delete"]
<1>1. /\ goal = "release" /\ r \in Callers /\ r # ControllerCaller
      /\ call' = [call EXCEPT ![r] = o] /\ call[r].pc = "idle"
      /\ UNCHANGED <<kind, goal, resets, node, k8s, world>>
      /\ failures' \in 0 .. MaxFailures
  BY ProviderAssumption
  DEF StartRelease, Callers, Failure, ResourceInv, ProviderTypeOK, ProviderAssumption, At
<1>2. o \in Call /\ o.gen = 0 /\ o.pc = "delete"
  BY RestFits, <1>1 DEF NoCall, Call, Steps
<1> HIDE DEF o
<1>3. Entitled(r, o)' /\ AtNodes(o)' /\ AtJobs(o)' /\ AtCluster(r, o)'
  BY <1>1, <1>2
  DEF Entitled, AtNodes, AtJobs, Passed, AtCluster, Tears, NodeBuilding, NodeDeleting, ClusterBuilding, ClusterDeleting
<1>4. call \in [Callers -> Call]
  BY DEF ResourceInv, ProviderTypeOK
<1>5. CallsPart' /\ call' \in [Callers -> Call]
  <2>1. ASSUME NEW d \in Callers, d # r PROVE Fits(d, call[d])'
    <3>1. call'[d] = call[d] /\ Fits(d, call[d])
      BY <1>1, <1>4, <2>1 DEF ResourceInv, CallsPart
    <3> QED
      BY <1>1, <3>1 DEF Fits, Entitled, AtNodes, AtJobs, Passed, AtCluster, node
  <2>2. call'[r] = o
    BY <1>1, <1>4
  <2>3. Fits(r, o)'
    BY <1>3 DEF Fits
  <2> QED
    BY <1>1, <1>2, <1>4, <2>1, <2>2, <2>3 DEF CallsPart
<1>6. ProviderTypeOK'
  BY <1>1, <1>5 DEF ResourceInv, ProviderTypeOK, node, world
<1>7. KindPart' /\ IncusPart' /\ InstancePart' /\ ClusterPart' /\ GoalPart'
  BY <1>1
  DEF ResourceInv, WorldPart, KindPart, IncusPart, InstancePart, ClusterPart, GoalPart, node
<1>8. ReadyPart' /\ GonePart'
  BY <1>1 DEF ReadyPart, GonePart
<1> QED
  BY <1>5, <1>6, <1>7, <1>8 DEF ResourceInv, WorldPart

LEMMA RejectRequestKept ==
  ASSUME ResourceInv, RejectRequest
  PROVE  ResourceInv'
<1>1. /\ At(ControllerCaller, "idle") /\ goal' = "failed" /\ ControllerCaller \in Callers
      /\ UNCHANGED <<kind, resets, call, node, k8s, world, failures>>
      /\ goal \in {"provision", "reset"}
  BY DEF RejectRequest, Callers
<1>2. ProviderTypeOK'
  BY <1>1 DEF ResourceInv, ProviderTypeOK, node, world, Goals
<1>3. KindPart' /\ IncusPart' /\ InstancePart' /\ ClusterPart' /\ GoalPart'
  BY <1>1
  DEF ResourceInv, WorldPart, KindPart, IncusPart, InstancePart, ClusterPart, GoalPart, node
<1>4. CallsPart'
  <2> SUFFICES ASSUME NEW c \in Callers PROVE call[c].pc = "idle"
    BY <1>1 DEF CallsPart, Fits
  <2> QED
    BY <1>1 DEF ResourceInv, CallsPart, Fits, Entitled, At
<1>5. ReadyPart' /\ GonePart'
  BY <1>1 DEF ReadyPart, GonePart
<1> QED
  BY <1>2, <1>3, <1>4, <1>5 DEF ResourceInv, WorldPart

LEMMA CallFailsKept ==
  ASSUME ResourceInv, NEW c \in Callers, CallFails(c)
  PROVE  ResourceInv'
<1>1. failures' \in 0 .. MaxFailures
  BY ProviderAssumption DEF CallFails, Failure, ResourceInv, ProviderTypeOK, ProviderAssumption
<1> QED
  BY <1>1, CallEnds DEF CallFails

LEMMA CallIsMootKept ==
  ASSUME ResourceInv, NEW r \in ReaperCallers, CallIsMoot(r)
  PROVE  ResourceInv'
<1>1. r \in Callers /\ failures' \in 0 .. MaxFailures
  BY DEF Callers, CallIsMoot, ResourceInv, ProviderTypeOK
<1> QED
  BY <1>1, CallEnds DEF CallIsMoot

LEMMA AskedKept ==
  ASSUME ResourceInv, ResetAsked \/ ReleaseAsked
  PROVE  ResourceInv'
<1>1. /\ UNCHANGED <<kind, call, node, k8s, world, failures>>
      /\ ControllerCaller \in Callers
      /\ \/ /\ goal \in {"ready", "reset"} /\ goal' = "reset" /\ resets' = resets + 1
            /\ resets < MaxResets
         \/ /\ goal \in {"provision", "reset", "ready", "failed"} /\ goal' = "release"
            /\ resets' = resets /\ At(ControllerCaller, "idle")
  BY DEF ResetAsked, ReleaseAsked, Callers
<1>2. resets \in Nat /\ resets' \in Nat /\ resets <= resets' /\ resets' \in Generations
  BY <1>1, ProviderAssumption DEF ResourceInv, ProviderTypeOK, Generations, ProviderAssumption
<1>3. ProviderTypeOK'
  BY <1>1, <1>2 DEF ResourceInv, ProviderTypeOK, node, world, Goals
<1>4. KindPart' /\ GoalPart'
  BY <1>1, <1>2 DEF ResourceInv, WorldPart, KindPart, GoalPart, node
<1>5. /\ incus.stamp \in Nat /\ k8s.stamp \in Nat /\ k8s.born \in Nat
      /\ \A n \in Nodes : inst[n].born \in Nat
  BY ProviderAssumption
  DEF ResourceInv, ProviderTypeOK, Incus, Namespace, Instance, Generations, ProviderAssumption
<1>6. IncusPart'
  BY <1>1, <1>2, <1>5 DEF ResourceInv, WorldPart, IncusPart, node
<1>7. InstancePart'
  <2> SUFFICES ASSUME NEW n \in Nodes, inst[n].state # "none"
               PROVE  /\ incus.project /\ incus.profile /\ incus.net # 0 /\ inst[n].addr = incus.net
                      /\ incus.stamp <= inst[n].born /\ inst[n].born <= resets'
    BY <1>1 DEF InstancePart, node
  <2> QED
    BY <1>2, <1>5 DEF ResourceInv, WorldPart, InstancePart
<1>8. ClusterPart'
  <2>1. k8s.stamp <= resets' /\ (k8s.terminal # "none" => k8s.stamp <= k8s.born /\ k8s.born <= resets')
    BY <1>2, <1>5 DEF ResourceInv, WorldPart, ClusterPart
  <2>2. k8s.state = "terminating" /\ goal' \notin {"release", "released"} => k8s.stamp < resets'
    BY <1>1, <1>2, <1>5 DEF ResourceInv, WorldPart, ClusterPart
  <2> QED
    BY <1>1, <2>1, <2>2 DEF ResourceInv, WorldPart, ClusterPart
<1>9. CallsPart'
  <2> SUFFICES ASSUME NEW c \in Callers, call[c].pc # "idle"
               PROVE  Entitled(c, call[c])' /\ AtNodes(call[c])' /\ AtJobs(call[c])' /\ AtCluster(c, call[c])'
    BY <1>1 DEF CallsPart, Fits
  <2>1. /\ Entitled(c, call[c]) /\ AtNodes(call[c]) /\ AtJobs(call[c]) /\ AtCluster(c, call[c])
        /\ call[c] \in Call
    BY CallHere DEF At
  <2>2. call[c].gen \in Nat
    BY <2>1, ProviderAssumption DEF Call, Generations, ProviderAssumption
  <2>3. c = ControllerCaller /\ goal = "reset" /\ goal' = "reset"
    BY <1>1, <2>1 DEF Entitled, ResourceInv, CallsPart, Fits, At
  <2>4. Entitled(c, call[c])'
    BY <1>1, <1>2, <2>1, <2>2, <2>3 DEF Entitled
  <2>5. AtNodes(call[c])' /\ AtJobs(call[c])' /\ AtCluster(c, call[c])'
    BY <1>1, <2>1 DEF AtNodes, AtJobs, Passed, AtCluster, node
  <2> QED
    BY <2>4, <2>5
<1>10. ReadyPart' /\ GonePart'
  BY <1>1 DEF ReadyPart, GonePart
<1> QED
  BY <1>3, <1>4, <1>6, <1>7, <1>8, <1>9, <1>10 DEF ResourceInv, WorldPart

LEMMA OthersKept ==
  ASSUME ResourceInv, NEW s \in Slots, OthersTake(s) \/ OthersLeave(s)
  PROVE  ResourceInv'
<1>1. UNCHANGED <<kind, goal, resets, call, node, k8s, upgraded, failures>>
  BY DEF OthersTake, OthersLeave
<1>2. others' \subseteq Slots /\ taken' \in 0 .. MaxTaken
  BY ProviderAssumption
  DEF OthersTake, OthersLeave, ResourceInv, ProviderTypeOK, ProviderAssumption
<1>3. ProviderTypeOK'
  BY <1>1, <1>2 DEF ResourceInv, ProviderTypeOK, node
<1>4. WorldPart'
  BY <1>1
  DEF ResourceInv, WorldPart, KindPart, IncusPart, InstancePart, ClusterPart, GoalPart, node
<1>5. CallsPart'
  BY <1>1
  DEF ResourceInv, CallsPart, Fits, Entitled, AtNodes, AtJobs, Passed, AtCluster, node
<1>6. ReadyPart' /\ GonePart'
  BY <1>1 DEF ResourceInv, ReadyPart, GonePart, Bare, Populated, node
<1> QED
  BY <1>3, <1>4, <1>5, <1>6 DEF ResourceInv

LEMMA UpgradeKept ==
  ASSUME ResourceInv, Upgrade
  PROVE  ResourceInv'
<1>1. /\ UNCHANGED <<kind, goal, resets, node, others, taken>> /\ upgraded' \in BOOLEAN
      /\ call' = [c \in Callers |-> NoCall] /\ k8s \in Namespace
      /\ failures' \in 0 .. MaxFailures
  BY ProviderAssumption DEF Upgrade, Failure, ResourceInv, ProviderTypeOK, ProviderAssumption
<1>2. /\ k8s' \in Namespace /\ k8s'.state = k8s.state /\ k8s'.stamp = k8s.stamp
      /\ k8s'.terminal = k8s.terminal /\ k8s'.born = k8s.born
      /\ k8s'.policy = k8s.policy /\ k8s'.secret = k8s.secret
  BY <1>1 DEF Upgrade, Namespace
<1>3. CallsPart' /\ call' \in [Callers -> Call]
  BY <1>1, RestFits DEF CallsPart, Fits, NoCall
<1>4. ProviderTypeOK'
  BY <1>1, <1>2, <1>3 DEF ResourceInv, ProviderTypeOK, node
<1>5. KindPart'
  <2>1. kind = "node" => k8s' = NoNamespace
    <3> SUFFICES ASSUME kind = "node" PROVE k8s' = NoNamespace
      OBVIOUS
    <3>1. k8s = NoNamespace /\ k8s' = [k8s EXCEPT !.stale = k8s.state # "absent" /\ kind = "blank"]
      BY DEF ResourceInv, WorldPart, KindPart, Upgrade
    <3>2. (k8s.state # "absent" /\ kind = "blank") = FALSE
      OBVIOUS
    <3>3. k8s' = [NoNamespace EXCEPT !.stale = FALSE]
      BY <3>1, <3>2
    <3> QED
      BY <3>3 DEF NoNamespace
  <2> QED
    BY <1>1, <2>1 DEF ResourceInv, WorldPart, KindPart, node
<1>6. IncusPart' /\ InstancePart' /\ ClusterPart' /\ GoalPart'
  BY <1>1, <1>2
  DEF ResourceInv, WorldPart, IncusPart, InstancePart, ClusterPart, GoalPart, node
<1>7. ReadyPart' /\ GonePart'
  BY <1>1, <1>2 DEF ResourceInv, ReadyPart, GonePart, Bare, Populated, node
<1> QED
  BY <1>3, <1>4, <1>5, <1>6, <1>7 DEF ResourceInv, WorldPart

-----------------------------------------------------------------------------
(* The invariant, and what it is for.                                      *)

LEMMA ResourceInitially ==
  ASSUME ResourceInit
  PROVE  ResourceInv
<1>1. /\ 0 \in Generations /\ 0 \in 0 .. MaxTaken /\ MaxFailures \in 0 .. MaxFailures
      /\ 0 \in 0 .. SlotCount
  BY ProviderAssumption DEF Generations, ProviderAssumption
<1>2. NoCall \in Call
  BY ProviderAssumption DEF NoCall, Call, Steps, Generations, Nodes, ProviderAssumption
<1>3. NoIncus \in Incus /\ NoInstance \in Instance /\ NoNamespace \in Namespace
  BY <1>1 DEF NoIncus, NoInstance, NoNamespace, Incus, Instance, Namespace
<1>4. ProviderTypeOK
  BY <1>1, <1>2, <1>3 DEF ResourceInit, ProviderTypeOK, Goals, Jobs
<1>5. KindPart /\ IncusPart /\ InstancePart /\ ClusterPart /\ GoalPart
  BY <1>1
  DEF ResourceInit, KindPart, IncusPart, InstancePart, ClusterPart, GoalPart, NoIncus,
      NoInstance, NoNamespace
<1>6. CallsPart
  BY DEF ResourceInit, CallsPart, Fits, NoCall
<1>7. ReadyPart /\ GonePart
  BY DEF ResourceInit, ReadyPart, GonePart
<1> QED
  BY <1>4, <1>5, <1>6, <1>7 DEF ResourceInv, WorldPart

LEMMA EveryResourceStep ==
  ASSUME ResourceInv, [ResourceNext]_resourceVars
  PROVE  ResourceInv'
<1>1. CASE UNCHANGED resourceVars
  BY <1>1
  DEF resourceVars, ResourceInv, ProviderTypeOK, WorldPart, KindPart, IncusPart, InstancePart,
      ClusterPart, GoalPart, CallsPart, Fits, Entitled, AtNodes, AtJobs, Passed, AtCluster,
      ReadyPart, GonePart, Bare, Populated
<1>2. ASSUME NEW c \in Callers, Provisioning(c)
      PROVE  ResourceInv'
  BY <1>2, ACLKept, NetworkKept, CreateNetworkKept, ProjectKept, ImageKept, ProfileKept,
     EnsureInstanceKept, WaitCreatedKept, WaitStartedKept, ObserveNodeKept, NamespaceKept,
     EnsureClusterKept, ControlPlaneReadyKept, ObserveTerminalKept
  DEF Provisioning
<1>3. ASSUME NEW c \in Callers, Deleting(c)
      PROVE  ResourceInv'
  BY <1>3, DeleteNodeKept, GetInstanceKept, StopOrDeleteKept, WaitTornKept, DeletePiecesKept,
     DeleteACLKept, DeleteVK8sKept, DeleteVClusterKept, DeleteNamespaceKept
  DEF Deleting
<1>4. CASE Work
  BY <1>2, <1>3, <1>4, StartCallKept, RejectRequestKept DEF Work, Callers
<1>5. ASSUME NEW r \in ReaperCallers, Teardown(r)
      PROVE  ResourceInv'
  BY <1>3, <1>5, StartReleaseKept, CallIsMootKept DEF Teardown, Callers
<1>6. CASE Platform
  BY <1>6, JobEndsKept, NodeInitializesKept, KubernetesKept DEF Platform
<1>7. ASSUME NEW c \in Callers, CallFails(c) \/ VClusterTimesOut(c)
      PROVE  ResourceInv'
  BY <1>7, CallFailsKept, VClusterTimesOutKept
<1>8. ASSUME NEW s \in Slots, OthersTake(s) \/ OthersLeave(s)
      PROVE  ResourceInv'
  BY <1>8, OthersKept
<1> QED
  BY <1>1, <1>4, <1>5, <1>6, <1>7, <1>8, AskedKept, UpgradeKept DEF ResourceNext

LEMMA ResourcePromises ==
  ASSUME ResourceInv
  PROVE  ResourceInvariant
<1>1. ReadyIsRebuilt
  BY DEF ResourceInv, ReadyPart, ReadyIsRebuilt
<1>2. NothingRunsUnfenced
  BY DEF ResourceInv, WorldPart, IncusPart, InstancePart, ClusterPart, NothingRunsUnfenced
<1>3. ReleasedMeansGone
  BY DEF ResourceInv, GonePart, Bare, ReleasedMeansGone
<1> QED
  BY <1>1, <1>2, <1>3 DEF ResourceInv, ResourceInvariant

(* A release that is reported left nothing, for whatever number of nodes,  *)
(* Reapers, resets and failing calls; what is ready after a reset was      *)
(* built for it; nothing runs without its fence (Provision, Reset,         *)
(* Release).                                                               *)
THEOREM ResourcesAreSound == ResourceSpec => []ResourceInvariant
<1>1. ResourceSpec => []ResourceInv
  BY ResourceInitially, EveryResourceStep, PTL DEF ResourceSpec
<1> QED
  BY <1>1, ResourcePromises, PTL
=============================================================================

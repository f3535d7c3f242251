----------------------------- MODULE IrqProofs -----------------------------
(***************************************************************************)
(* The tables of physical interrupts, for any number of devices, numbers,  *)
(* vectors, threads and pCPUs. The inductive invariant says what a request *)
(* or a removal has done to the entries of its device at each of its       *)
(* steps, under ptdev_lock, that the entries of all other devices are      *)
(* complete, and what an interrupt that is being dispatched has found.     *)
(***************************************************************************)
EXTENDS Irq, TLAPS

(* Where a thread is that requests a number, and one that frees it. *)
Requesting == {"vector", "alloc", "action", "give_back"}
Freeing == {"free", "irte_first", "free_num", "clear", "irte"}

(* The thread holds ptdev_lock. *)
Locked(t) == thread[t].at \in Requesting \union Freeing

Calls == {None} \union [at : Requesting \union Freeing \union {"program"}, dev : Devices, irq : Irqs]
Interrupts ==
    {x \in [at : {"no", "lookup", "verify", "handle"}, vec : Vectors \union {NULL},
             from : Devices \union {NULL}, irq : Irqs \union {INVALID}, action : Devices \union {NULL}] :
       (x.at = "lookup" => x.vec # NULL) /\ (x.at = "verify" => x.irq # INVALID)}

IrqTyped ==
    /\ irq_alloc_bitmap \subseteq Irqs
    /\ vector \in [Irqs -> Vectors \union {INVALID}]
    /\ vector_to_irq \in [Vectors -> Irqs \union {INVALID}]
    /\ action \in [Irqs -> Devices \union {NULL}] /\ priv_data = action
    /\ allocated_pirq \in [Devices -> Irqs \union {INVALID}]
    /\ irte \in [Devices -> Vectors \union {NULL}]
    /\ thread \in [Threads -> Calls]
    /\ cpu \in [Cpus -> Interrupts]
    /\ wrong \in BOOLEAN

(* Vectors and numbers are inverse to each other at every step, and so are
   active devices and handlers. *)
TablesInv ==
    /\ \A i \in Irqs : vector[i] # INVALID => vector_to_irq[vector[i]] = i
    /\ \A v \in Vectors : vector_to_irq[v] # INVALID => vector[vector_to_irq[v]] = v
    /\ \A i \in Irqs : action[i] # NULL => allocated_pirq[action[i]] = i
    /\ \A d, e \in Devices : allocated_pirq[d] # INVALID /\ allocated_pirq[d] = allocated_pirq[e] => d = e
    /\ \A d \in Devices : allocated_pirq[d] = INVALID => irte[d] = NULL

(* One thread holds ptdev_lock, and no two are about the same device. *)
LockInv ==
    /\ \A t, u \in Threads : Locked(t) /\ Locked(u) => t = u
    /\ \A t, u \in Threads : thread[t].dev \in Devices /\ thread[t].dev = thread[u].dev => t = u

(* What a thread has done to the number that it requests or frees. *)
ThreadInv(t) ==
    LET irq == thread[t].irq
        at == thread[t].at
        d == thread[t].dev
    IN  /\ at \in Requesting => /\ allocated_pirq[d] = INVALID /\ irq \in irq_alloc_bitmap
                                /\ irq \in Ioapic \/ \A e \in Devices : allocated_pirq[e] # irq
        /\ at \in Freeing \union {"program"} => allocated_pirq[d] = irq
        /\ at = "alloc" => vector[irq] = INVALID
        /\ at = "action" => vector[irq] # INVALID
        /\ at = "give_back" => vector[irq] = INVALID
        /\ at \in {"free_num", "clear", "irte"} => vector[irq] = INVALID \/ irq \in DOMAIN Static
        /\ at \in {"clear", "irte"} => irq \notin irq_alloc_bitmap \/ irq \in Ioapic
        /\ at = "irte" => action[irq] = NULL

(* What is in use, and by whom. *)
Used(i) ==
    \/ i \in DOMAIN Static \/ \E d \in Devices : allocated_pirq[d] = i
    \/ \E t \in Threads : thread[t].at \in Requesting /\ thread[t].irq = i
UseInv ==
    /\ \A i \in irq_alloc_bitmap : Used(i) \/ i \in Ioapic
    /\ \A i \in Irqs : vector[i] # INVALID => Used(i)
    /\ \A d \in Devices : allocated_pirq[d] # INVALID /\ ~Removed(d) => Complete(d)

(* The interrupt of a device that is not removed is the one it asked for. *)
CpuInv(c) ==
    LET d == cpu[c].from IN
    "inflight" \notin races /\ cpu[c].at # "no" =>
        /\ d \in Devices /\ allocated_pirq[d] # INVALID /\ ~Removed(d)
        /\ cpu[c].vec = vector[allocated_pirq[d]]
        /\ cpu[c].at \in {"verify", "handle"} => cpu[c].irq = allocated_pirq[d]
        /\ cpu[c].at = "handle" => cpu[c].action = d

IrqIInv ==
    /\ IrqTyped /\ TablesInv /\ LockInv /\ (\A t \in Threads : ThreadInv(t)) /\ UseInv
    /\ \A c \in Cpus : CpuInv(c)
    /\ "inflight" \notin races => ~wrong

LEMMA Entry ==
    ASSUME IrqTyped, NEW t \in Threads
    PROVE  /\ thread[t].at \in Requesting \union Freeing \union {"program", "no"}
           /\ thread[t].at = "no" => thread[t] = None /\ thread[t].dev = NULL
           /\ thread[t].at # "no" => thread[t].dev \in Devices /\ thread[t].irq \in Irqs
BY DEF IrqTyped, Calls, None, Requesting, Freeing

LEMMA Entering ==
    ASSUME IrqTyped, NEW t \in Threads, NEW d \in Devices, NEW irq \in Irqs,
           NEW where \in Requesting \union Freeing \union {"program"},
           thread' = [thread EXCEPT ![t] = [at |-> where, dev |-> d, irq |-> irq]]
    PROVE  /\ thread' \in [Threads -> Calls]
           /\ thread'[t].at = where /\ thread'[t].dev = d /\ thread'[t].irq = irq
           /\ \A u \in Threads : u # t => thread'[u] = thread[u]
BY Zenon DEF IrqTyped, Calls

LEMMA Moving ==
    ASSUME IrqTyped, NEW t \in Threads, thread[t].at # "no",
           NEW where \in Requesting \union Freeing \union {"program"}, Goto(t, where)
    PROVE  /\ thread' \in [Threads -> Calls]
           /\ thread'[t].at = where /\ thread'[t].dev = thread[t].dev /\ thread'[t].irq = thread[t].irq
           /\ \A u \in Threads : u # t => thread'[u] = thread[u]
<1>1. thread[t] \in [at : Requesting \union Freeing \union {"program"}, dev : Devices, irq : Irqs]
  BY DEF IrqTyped, Calls, None
<1>2. thread' = [thread EXCEPT ![t] = [thread[t] EXCEPT !.at = where]]
  BY Zenon DEF Goto
<1>. QED  BY <1>1, <1>2, Zenon DEF IrqTyped, Calls

LEMMA Leaving ==
    ASSUME IrqTyped, NEW t \in Threads, Leaves(t)
    PROVE  /\ thread' \in [Threads -> Calls]
           /\ thread'[t].at = "no" /\ thread'[t].dev = NULL
           /\ \A u \in Threads : u # t => thread'[u] = thread[u]
BY Zenon DEF IrqTyped, Calls, Leaves, None

(* The locks keep a thread's device and number from the others. *)
LEMMA Working ==
    ASSUME IrqIInv, NEW t \in Threads, Locked(t)
    PROVE  /\ thread[t].dev \in Devices /\ thread[t].irq \in Irqs
           /\ \A u \in Threads : u # t => thread[u].dev # thread[t].dev /\ thread[u].at \in {"no", "program"}
           /\ \A e \in Devices : allocated_pirq[e] # INVALID /\ e # thread[t].dev => ~Removed(e) /\ Complete(e)
           /\ \A e \in Devices : allocated_pirq[e] # INVALID /\ ~Removed(e) => e # thread[t].dev
           /\ thread[t].at \in Freeing =>
                 \A e \in Devices : allocated_pirq[e] # INVALID /\ e # thread[t].dev =>
                     allocated_pirq[e] # thread[t].irq
<1>1. IrqTyped /\ TablesInv /\ LockInv /\ UseInv /\ ThreadInv(t)
  BY Zenon DEF IrqIInv
<1>2. thread[t].dev \in Devices /\ thread[t].irq \in Irqs
  BY <1>1, Entry, Zenon DEF Locked, Requesting, Freeing
<1>3. \A u \in Threads : u # t => thread[u].dev # thread[t].dev /\ thread[u].at \in {"no", "program"}
  BY <1>1, <1>2, Entry, Zenon DEF LockInv, Locked
<1>4. \A e \in Devices : e # thread[t].dev => ~Removed(e)
  BY <1>1, <1>3, Entry, IrqAssumption, Zenon DEF Removed
<1>5. \A e \in Devices : allocated_pirq[e] # INVALID /\ e # thread[t].dev => ~Removed(e) /\ Complete(e)
  BY <1>1, <1>4, Zenon DEF UseInv
<1>6. \A e \in Devices : allocated_pirq[e] # INVALID /\ ~Removed(e) => e # thread[t].dev
  BY <1>1, Zenon DEF Removed, ThreadInv, Locked, Requesting, Freeing
<1>7. thread[t].at \in Freeing =>
         \A e \in Devices : allocated_pirq[e] # INVALID /\ e # thread[t].dev => allocated_pirq[e] # thread[t].irq
  BY <1>1, <1>2 DEF ThreadInv, TablesInv, IrqTyped
<1>. QED  BY <1>2, <1>3, <1>5, <1>6, <1>7, Zenon

LEMMA NotOf ==
    ASSUME NEW t \in Threads, NEW e, thread[t].dev # e, thread'[t].dev # e,
           \A u \in Threads : u # t => thread'[u] = thread[u]
    PROVE  Removed(e)' <=> Removed(e)
BY Zenon DEF Removed

LEMMA StaysUsed ==
    ASSUME NEW t \in Threads, NEW i \in Irqs, Used(i), allocated_pirq' = allocated_pirq,
           thread[t].at \in Requesting => thread'[t].at \in Requesting /\ thread'[t].irq = thread[t].irq,
           \A u \in Threads : u # t => thread'[u] = thread[u]
    PROVE  Used(i)'
<1>1. CASE i \in DOMAIN Static \/ \E d \in Devices : allocated_pirq[d] = i
  BY <1>1, Zenon DEF Used
<1>2. ASSUME NEW u \in Threads, thread[u].at \in Requesting /\ thread[u].irq = i
      PROVE  Used(i)'
  BY <1>2, Zenon DEF Used
<1>. QED  BY <1>1, <1>2, Zenon DEF Used

(* What a step of the holder of the lock leaves as it was, if the other
   devices keep their numbers and vectors. *)
LEMMA Locking ==
    ASSUME IrqIInv, NEW t \in Threads, Locked(t), UNCHANGED <<cpu, races>>,
           thread'[t].dev = thread[t].dev \/ (thread'[t].dev = NULL /\ thread'[t].at = "no"),
           \A u \in Threads : u # t => thread'[u] = thread[u],
           \A e \in Devices : e # thread[t].dev => allocated_pirq'[e] = allocated_pirq[e],
           \A e \in Devices : e # thread[t].dev /\ allocated_pirq[e] # INVALID =>
               vector'[allocated_pirq[e]] = vector[allocated_pirq[e]]
    PROVE  /\ LockInv' /\ \A c \in Cpus : CpuInv(c)'
           /\ \A u \in Threads : u # t => ThreadInv(u)'
<1>. DEFINE d == thread[t].dev
<1>1. IrqTyped /\ LockInv /\ (\A u \in Threads : ThreadInv(u)) /\ \A c \in Cpus : CpuInv(c)
  BY Zenon DEF IrqIInv
<1>2. /\ d \in Devices
      /\ \A u \in Threads : u # t => thread[u].dev # d /\ thread[u].at \in {"no", "program"}
      /\ \A e \in Devices : allocated_pirq[e] # INVALID /\ ~Removed(e) => e # d
  BY Working, Zenon
<1>3. \A e \in Devices : e # d => (Removed(e)' <=> Removed(e))
  BY <1>2, NotOf, IrqAssumption
<1>4. LockInv'
  BY <1>1, <1>2, IrqAssumption DEF LockInv, Locked, Requesting, Freeing
<1>5. ASSUME NEW c \in Cpus  PROVE CpuInv(c)'
  <2>. SUFFICES ASSUME "inflight" \notin races, cpu[c].at # "no"
                PROVE  CpuInv(c)'
    BY Zenon DEF CpuInv
  <2>1. PICK e \in Devices : e = cpu[c].from /\ allocated_pirq[e] # INVALID /\ ~Removed(e)
    BY <1>1, Zenon DEF CpuInv
  <2>2. e # d /\ ~Removed(e)'
    BY <1>2, <1>3, <2>1, Zenon
  <2>. QED  BY <1>1, <2>1, <2>2, Zenon DEF CpuInv
<1>6. ASSUME NEW u \in Threads, u # t  PROVE ThreadInv(u)'
  <2>1. thread[u].at \in {"no", "program"} /\ thread'[u] = thread[u]
    BY <1>2, <1>6, Zenon
  <2>2. thread[u].at = "program" =>
           /\ thread[u].dev \in Devices /\ thread[u].dev # d
           /\ allocated_pirq[thread[u].dev] = thread[u].irq
    BY <1>1, <1>2, <1>6, Entry DEF ThreadInv
  <2>. QED  BY <2>1, <2>2 DEF ThreadInv, Requesting, Freeing
<1>. QED  BY <1>4, <1>5, <1>6, Zenon

LEMMA Idle ==
    ASSUME IrqIInv, UNCHANGED <<irq_alloc_bitmap, vector, vector_to_irq, action, priv_data, allocated_pirq, irte,
                                thread, cpu, wrong, races>>
    PROVE  IrqIInv'
<1>1. IrqTyped' /\ TablesInv' /\ LockInv' /\ UseInv'
  <2>1. IrqTyped'
    BY Zenon DEF IrqIInv, IrqTyped
  <2>2. TablesInv' /\ LockInv'
    BY Zenon DEF IrqIInv, TablesInv, LockInv, Locked
  <2>3. UseInv'
    BY DEF IrqIInv, UseInv, Used, Complete, Removed
  <2>. QED  BY <2>1, <2>2, <2>3, Zenon
<1>2. ASSUME NEW u \in Threads  PROVE ThreadInv(u)'
  BY Zenon DEF IrqIInv, ThreadInv
<1>3. ASSUME NEW c \in Cpus  PROVE CpuInv(c)'
  BY Zenon DEF IrqIInv, CpuInv, Removed
<1>. QED  BY <1>1, <1>2, <1>3, Zenon DEF IrqIInv

LEMMA Step_has_vector ==
    ASSUME IrqIInv, NEW t \in Threads, has_vector(t)
    PROVE  IrqIInv'
<1>. DEFINE d == thread[t].dev
           irq == thread[t].irq
<1>1. /\ IrqTyped /\ TablesInv /\ LockInv /\ UseInv
      /\ (\A u \in Threads : ThreadInv(u)) /\ \A c \in Cpus : CpuInv(c)
  BY Zenon DEF IrqIInv
<1>2. /\ thread' \in [Threads -> Calls] /\ thread[t].at = "vector" /\ thread'[t].at \in {"alloc", "action", "give_back"}
      /\ thread'[t].dev = d /\ thread'[t].irq = irq
      /\ \A u \in Threads : u # t => thread'[u] = thread[u]
  BY <1>1, Moving, Zenon DEF has_vector, At, Requesting, Freeing
<1>a. Locked(t)
  BY <1>2, Zenon DEF Locked, Requesting, Freeing
<1>b. /\ d \in Devices /\ irq \in Irqs
      /\ \A u \in Threads : u # t => thread[u].dev # d /\ thread[u].at \in {"no", "program"}
      /\ \A e \in Devices : allocated_pirq[e] # INVALID /\ e # d => ~Removed(e) /\ Complete(e)
      /\ \A e \in Devices : allocated_pirq[e] # INVALID /\ ~Removed(e) => e # d
  BY <1>2, <1>a, Working, Zenon
<1>. HIDE DEF d, irq
<1>3. IrqTyped'
  BY <1>1, <1>2, <1>b, IrqAssumption, Zenon DEF IrqTyped, has_vector, descvars, devvars, At, irq
<1>4. TablesInv'
  BY <1>1, <1>2, <1>b, IrqAssumption DEF IrqTyped, TablesInv, ThreadInv, d, irq, has_vector, descvars, devvars, At
<1>5. /\ LockInv' /\ \A c \in Cpus : CpuInv(c)'
      /\ \A u \in Threads : u # t => ThreadInv(u)'
  BY <1>1, <1>2, <1>a, <1>b, Locking, Zenon DEF Complete, IrqTyped, d, irq, has_vector, descvars, devvars, At
<1>6. ASSUME NEW u \in Threads  PROVE ThreadInv(u)'
  <2>1. CASE u = t
    <3>1. \/ thread'[t].at = "alloc" /\ vector[irq] = INVALID
          \/ thread'[t].at = "action" /\ vector[irq] # INVALID
      BY <1>1, <1>2, <1>b, Moving DEF has_vector, Goto, TablesInv, IrqTyped, irq
    <3>. QED BY <3>1,  <1>1, <1>2, <1>b, <2>1, IrqAssumption DEF ThreadInv, IrqTyped, TablesInv, Requesting, Freeing, d, irq, has_vector, descvars, devvars, At
  <2>2. CASE u # t
    BY <1>5, <2>2, Zenon
  <2>. QED  BY <2>1, <2>2, Zenon
<1>7. UseInv'
  <2>1. \A i \in Irqs : Used(i) => Used(i)'
    <3>. thread[t].at \in Requesting => thread'[t].at \in Requesting
      BY <1>2, Zenon DEF Requesting
    <3>. allocated_pirq' = allocated_pirq
      BY Zenon DEF has_vector, descvars, devvars, At
    <3>. QED  BY <1>2, StaysUsed, Zenon DEF irq
  <2>2. \A i \in irq_alloc_bitmap' : Used(i)' \/ i \in Ioapic
    BY <1>1, <2>1, Zenon DEF UseInv, IrqTyped, has_vector, descvars, devvars, At
  <2>3. \A i \in Irqs : vector'[i] # INVALID => Used(i)'
    BY <1>1, <1>2, <2>1, Zenon DEF UseInv, Used, Requesting, IrqTyped, irq, has_vector, descvars, devvars, At
  <2>4. ASSUME NEW e \in Devices, allocated_pirq'[e] # INVALID, ~Removed(e)'
        PROVE  Complete(e)'
    <3>1. e # d /\ allocated_pirq'[e] = allocated_pirq[e]
      BY <1>1, <1>2, <2>4, Zenon DEF Removed, ThreadInv, Requesting, d, has_vector, descvars, devvars, At
    <3>2. Complete(e)
      BY <1>b, <2>4, <3>1, Zenon
    <3>. QED  BY <1>1, <1>2, <1>b, <2>4, <3>1, <3>2, IrqAssumption, Zenon DEF Complete, IrqTyped, TablesInv, d, irq, has_vector, descvars, devvars, At
  <2>. QED  BY <2>2, <2>3, <2>4, Zenon DEF UseInv
<1>9. wrong' = wrong /\ races' = races
  BY Zenon DEF has_vector, At
<1>. QED  BY <1>3, <1>4, <1>5, <1>6, <1>7, <1>9, Zenon DEF IrqIInv

LEMMA Step_release_cb ==
    ASSUME IrqIInv, NEW t \in Threads, release_cb(t)
    PROVE  IrqIInv'
<1>. DEFINE d == thread[t].dev
           irq == thread[t].irq
<1>1. /\ IrqTyped /\ TablesInv /\ LockInv /\ UseInv
      /\ (\A u \in Threads : ThreadInv(u)) /\ \A c \in Cpus : CpuInv(c)
  BY Zenon DEF IrqIInv
<1>2. /\ thread' \in [Threads -> Calls] /\ thread[t].at = "irte_first" /\ thread'[t].at = "free"
      /\ thread'[t].dev = d /\ thread'[t].irq = irq
      /\ \A u \in Threads : u # t => thread'[u] = thread[u]
  BY <1>1, Moving, Zenon DEF release_cb, At, Requesting, Freeing
<1>a. Locked(t)
  BY <1>2, Zenon DEF Locked, Requesting, Freeing
<1>b. /\ d \in Devices /\ irq \in Irqs
      /\ \A u \in Threads : u # t => thread[u].dev # d /\ thread[u].at \in {"no", "program"}
      /\ \A e \in Devices : allocated_pirq[e] # INVALID /\ e # d => ~Removed(e) /\ Complete(e)
      /\ \A e \in Devices : allocated_pirq[e] # INVALID /\ ~Removed(e) => e # d
      /\ \A e \in Devices : allocated_pirq[e] # INVALID /\ e # d => allocated_pirq[e] # irq
  BY <1>2, <1>a, Working, Zenon DEF Freeing
<1>. HIDE DEF d, irq
<1>3. IrqTyped'
  BY <1>1, <1>2, <1>b, IrqAssumption, Zenon DEF IrqTyped, release_cb, descvars, devvars, At, d, irq
<1>4. TablesInv'
  BY <1>1, <1>2, <1>b, IrqAssumption DEF IrqTyped, TablesInv, ThreadInv, d, irq, release_cb, descvars, devvars, At
<1>5. /\ LockInv' /\ \A c \in Cpus : CpuInv(c)'
      /\ \A u \in Threads : u # t => ThreadInv(u)'
  BY <1>1, <1>2, <1>a, <1>b, Locking, Zenon DEF Complete, IrqTyped, d, irq, release_cb, descvars, devvars, At
<1>6. ASSUME NEW u \in Threads  PROVE ThreadInv(u)'
  <2>1. CASE u = t
    BY <1>1, <1>2, <1>b, <2>1, IrqAssumption, Zenon DEF ThreadInv, IrqTyped, TablesInv, Requesting, Freeing, d, irq, release_cb, descvars, devvars, At
  <2>2. CASE u # t
    BY <1>5, <2>2, Zenon
  <2>. QED  BY <2>1, <2>2, Zenon
<1>7. UseInv'
  <2>1. \A i \in Irqs : Used(i) => Used(i)'
    <3>. thread[t].at \in Requesting => thread'[t].at \in Requesting
      BY <1>2, Zenon DEF Requesting
    <3>. allocated_pirq' = allocated_pirq
      BY Zenon DEF release_cb, descvars, devvars, At
    <3>. QED  BY <1>2, StaysUsed, Zenon DEF irq
  <2>2. \A i \in irq_alloc_bitmap' : Used(i)' \/ i \in Ioapic
    BY <1>1, <2>1, Zenon DEF UseInv, IrqTyped, release_cb, descvars, devvars, At
  <2>3. \A i \in Irqs : vector'[i] # INVALID => Used(i)'
    BY <1>1, <1>2, <2>1, Zenon DEF UseInv, Used, Requesting, IrqTyped, irq, release_cb, descvars, devvars, At
  <2>4. ASSUME NEW e \in Devices, allocated_pirq'[e] # INVALID, ~Removed(e)'
        PROVE  Complete(e)'
    <3>1. e # d /\ allocated_pirq'[e] = allocated_pirq[e]
      BY <1>1, <1>2, <2>4, Zenon DEF Removed, ThreadInv, Requesting, d, release_cb, descvars, devvars, At
    <3>2. Complete(e)
      BY <1>b, <2>4, <3>1, Zenon
    <3>. QED  BY <1>1, <1>2, <1>b, <2>4, <3>1, <3>2, IrqAssumption DEF Complete, IrqTyped, TablesInv, d, irq, release_cb, descvars, devvars, At
  <2>. QED  BY <2>2, <2>3, <2>4, Zenon DEF UseInv
<1>9. wrong' = wrong /\ races' = races
  BY Zenon DEF release_cb, At
<1>. QED  BY <1>3, <1>4, <1>5, <1>6, <1>7, <1>9, Zenon DEF IrqIInv

LEMMA Step_free_irq_vector ==
    ASSUME IrqIInv, NEW t \in Threads, free_irq_vector(t)
    PROVE  IrqIInv'
<1>. DEFINE d == thread[t].dev
           irq == thread[t].irq
<1>1. /\ IrqTyped /\ TablesInv /\ LockInv /\ UseInv
      /\ (\A u \in Threads : ThreadInv(u)) /\ \A c \in Cpus : CpuInv(c)
  BY Zenon DEF IrqIInv
<1>2. /\ thread' \in [Threads -> Calls] /\ thread[t].at = "free" /\ thread'[t].at = "free_num"
      /\ thread'[t].dev = d /\ thread'[t].irq = irq
      /\ \A u \in Threads : u # t => thread'[u] = thread[u]
  BY <1>1, Moving, Zenon DEF free_irq_vector, At, Requesting, Freeing
<1>a. Locked(t)
  BY <1>2, Zenon DEF Locked, Requesting, Freeing
<1>b. /\ d \in Devices /\ irq \in Irqs
      /\ \A u \in Threads : u # t => thread[u].dev # d /\ thread[u].at \in {"no", "program"}
      /\ \A e \in Devices : allocated_pirq[e] # INVALID /\ e # d => ~Removed(e) /\ Complete(e)
      /\ \A e \in Devices : allocated_pirq[e] # INVALID /\ ~Removed(e) => e # d
      /\ \A e \in Devices : allocated_pirq[e] # INVALID /\ e # d => allocated_pirq[e] # irq
  BY <1>2, <1>a, Working, Zenon DEF Freeing
<1>. HIDE DEF d, irq
<1>3. IrqTyped'
  BY <1>1, <1>2, <1>b, IrqAssumption DEF IrqTyped, free_irq_vector, descvars, devvars, At, irq
<1>4. TablesInv'
  BY <1>1, <1>2, <1>b, IrqAssumption DEF IrqTyped, TablesInv, ThreadInv, d, irq, free_irq_vector, descvars, devvars, At
<1>5. /\ LockInv' /\ \A c \in Cpus : CpuInv(c)'
      /\ \A u \in Threads : u # t => ThreadInv(u)'
  BY <1>1, <1>2, <1>a, <1>b, Locking DEF Complete, IrqTyped, d, irq, free_irq_vector, descvars, devvars, At
<1>6. ASSUME NEW u \in Threads  PROVE ThreadInv(u)'
  <2>1. CASE u = t
    BY <1>1, <1>2, <1>b, <2>1, IrqAssumption DEF ThreadInv, IrqTyped, TablesInv, Requesting, Freeing, d, irq, free_irq_vector, descvars, devvars, At
  <2>2. CASE u # t
    BY <1>5, <2>2, Zenon
  <2>. QED  BY <2>1, <2>2, Zenon
<1>7. UseInv'
  <2>1. \A i \in Irqs : Used(i) => Used(i)'
    <3>. thread[t].at \in Requesting => thread'[t].at \in Requesting
      BY <1>2, Zenon DEF Requesting
    <3>. allocated_pirq' = allocated_pirq
      BY Zenon DEF free_irq_vector, descvars, devvars, At
    <3>. QED  BY <1>2, StaysUsed, Zenon DEF irq
  <2>2. \A i \in irq_alloc_bitmap' : Used(i)' \/ i \in Ioapic
    BY <1>1, <2>1, Zenon DEF UseInv, IrqTyped, free_irq_vector, descvars, devvars, At
  <2>3. \A i \in Irqs : vector'[i] # INVALID => Used(i)'
    BY <1>1, <1>2, <2>1 DEF UseInv, Used, Requesting, IrqTyped, irq, free_irq_vector, descvars, devvars, At
  <2>4. ASSUME NEW e \in Devices, allocated_pirq'[e] # INVALID, ~Removed(e)'
        PROVE  Complete(e)'
    <3>1. e # d /\ allocated_pirq'[e] = allocated_pirq[e]
      BY <1>1, <1>2, <2>4, Zenon DEF Removed, ThreadInv, Requesting, d, free_irq_vector, descvars, devvars, At
    <3>2. Complete(e)
      BY <1>b, <2>4, <3>1, Zenon
    <3>. QED  BY <1>1, <1>2, <1>b, <2>4, <3>1, <3>2, IrqAssumption DEF Complete, IrqTyped, TablesInv, d, irq, free_irq_vector, descvars, devvars, At
  <2>. QED  BY <2>2, <2>3, <2>4, Zenon DEF UseInv
<1>9. wrong' = wrong /\ races' = races
  BY Zenon DEF free_irq_vector, At
<1>. QED  BY <1>3, <1>4, <1>5, <1>6, <1>7, <1>9, Zenon DEF IrqIInv

LEMMA Step_clear_action ==
    ASSUME IrqIInv, NEW t \in Threads, clear_action(t)
    PROVE  IrqIInv'
<1>. DEFINE d == thread[t].dev
           irq == thread[t].irq
<1>1. /\ IrqTyped /\ TablesInv /\ LockInv /\ UseInv
      /\ (\A u \in Threads : ThreadInv(u)) /\ \A c \in Cpus : CpuInv(c)
  BY Zenon DEF IrqIInv
<1>2. /\ thread' \in [Threads -> Calls] /\ thread[t].at = "clear" /\ thread'[t].at = "irte"
      /\ thread'[t].dev = d /\ thread'[t].irq = irq
      /\ \A u \in Threads : u # t => thread'[u] = thread[u]
  BY <1>1, Moving, Zenon DEF clear_action, At, Requesting, Freeing
<1>a. Locked(t)
  BY <1>2, Zenon DEF Locked, Requesting, Freeing
<1>b. /\ d \in Devices /\ irq \in Irqs
      /\ \A u \in Threads : u # t => thread[u].dev # d /\ thread[u].at \in {"no", "program"}
      /\ \A e \in Devices : allocated_pirq[e] # INVALID /\ e # d => ~Removed(e) /\ Complete(e)
      /\ \A e \in Devices : allocated_pirq[e] # INVALID /\ ~Removed(e) => e # d
      /\ \A e \in Devices : allocated_pirq[e] # INVALID /\ e # d => allocated_pirq[e] # irq
  BY <1>2, <1>a, Working, Zenon DEF Freeing
<1>. HIDE DEF d, irq
<1>3. IrqTyped'
  BY <1>1, <1>2, <1>b, IrqAssumption, Zenon DEF IrqTyped, clear_action, descvars, devvars, At, d, irq
<1>4. TablesInv'
  BY <1>1, <1>2, <1>b, IrqAssumption DEF IrqTyped, TablesInv, ThreadInv, d, irq, clear_action, descvars, devvars, At
<1>5. /\ LockInv' /\ \A c \in Cpus : CpuInv(c)'
      /\ \A u \in Threads : u # t => ThreadInv(u)'
  BY <1>1, <1>2, <1>a, <1>b, Locking, Zenon DEF Complete, IrqTyped, d, irq, clear_action, descvars, devvars, At
<1>6. ASSUME NEW u \in Threads  PROVE ThreadInv(u)'
  <2>1. CASE u = t
    BY <1>1, <1>2, <1>b, <2>1, IrqAssumption DEF ThreadInv, IrqTyped, TablesInv, Requesting, Freeing, d, irq, clear_action, descvars, devvars, At
  <2>2. CASE u # t
    BY <1>5, <2>2, Zenon
  <2>. QED  BY <2>1, <2>2, Zenon
<1>7. UseInv'
  <2>1. \A i \in Irqs : Used(i) => Used(i)'
    <3>. thread[t].at \in Requesting => thread'[t].at \in Requesting
      BY <1>2, Zenon DEF Requesting
    <3>. allocated_pirq' = allocated_pirq
      BY Zenon DEF clear_action, descvars, devvars, At
    <3>. QED  BY <1>2, StaysUsed, Zenon DEF irq
  <2>2. \A i \in irq_alloc_bitmap' : Used(i)' \/ i \in Ioapic
    BY <1>1, <2>1, Zenon DEF UseInv, IrqTyped, clear_action, descvars, devvars, At
  <2>3. \A i \in Irqs : vector'[i] # INVALID => Used(i)'
    BY <1>1, <1>2, <2>1, Zenon DEF UseInv, Used, Requesting, IrqTyped, irq, clear_action, descvars, devvars, At
  <2>4. ASSUME NEW e \in Devices, allocated_pirq'[e] # INVALID, ~Removed(e)'
        PROVE  Complete(e)'
    <3>1. e # d /\ allocated_pirq'[e] = allocated_pirq[e]
      BY <1>1, <1>2, <2>4, Zenon DEF Removed, ThreadInv, Requesting, d, clear_action, descvars, devvars, At
    <3>2. Complete(e)
      BY <1>b, <2>4, <3>1, Zenon
    <3>. QED  BY <1>1, <1>2, <1>b, <2>4, <3>1, <3>2, IrqAssumption DEF Complete, IrqTyped, TablesInv, d, irq, clear_action, descvars, devvars, At
  <2>. QED  BY <2>2, <2>3, <2>4, Zenon DEF UseInv
<1>9. wrong' = wrong /\ races' = races
  BY Zenon DEF clear_action, At
<1>. QED  BY <1>3, <1>4, <1>5, <1>6, <1>7, <1>9, Zenon DEF IrqIInv

LEMMA Step_alloc_irq_vector ==
    ASSUME IrqIInv, NEW t \in Threads, alloc_irq_vector(t)
    PROVE  IrqIInv'
<1>. DEFINE d == thread[t].dev
           irq == thread[t].irq
<1>1. /\ IrqTyped /\ TablesInv /\ LockInv /\ UseInv
      /\ (\A u \in Threads : ThreadInv(u)) /\ \A c \in Cpus : CpuInv(c)
  BY Zenon DEF IrqIInv
<1>2. /\ thread' \in [Threads -> Calls] /\ thread[t].at = "alloc" /\ thread'[t].at \in {"action", "give_back"}
      /\ thread'[t].dev = d /\ thread'[t].irq = irq
      /\ \A u \in Threads : u # t => thread'[u] = thread[u]
  BY <1>1, Moving, Zenon DEF alloc_irq_vector, At, Requesting, Freeing
<1>3. /\ UNCHANGED <<irq_alloc_bitmap, action, priv_data, allocated_pirq, irte, requests, cpu, wrong, races>>
      /\ \/ thread'[t].at = "give_back" /\ UNCHANGED <<vector, vector_to_irq>>
         \/ /\ thread'[t].at = "action"
            /\ \E v \in Vectors : /\ vector_to_irq[v] = INVALID /\ vector' = [vector EXCEPT ![irq] = v]
                                  /\ vector_to_irq' = [vector_to_irq EXCEPT ![v] = irq]
  <2>. DEFINE free == {v \in Dynamic : vector_to_irq[v] = INVALID}
  <2>1. CASE free = {}
    BY <1>1, <1>2, <2>1, Moving DEF alloc_irq_vector, At, Goto, descvars, devvars, IrqTyped
  <2>2. CASE free # {}
    <3>1. PICK v \in Lowest(free) : /\ vector' = [vector EXCEPT ![irq] = v]
                                    /\ vector_to_irq' = [vector_to_irq EXCEPT ![v] = irq]
      BY <2>2, Zenon DEF alloc_irq_vector
    <3>2. v \in Vectors /\ vector_to_irq[v] = INVALID
      BY Zenon DEF Lowest, Vectors
    <3>3. thread'[t].at = "action" /\ UNCHANGED <<irq_alloc_bitmap, descvars, devvars, requests, cpu, wrong, races>>
      BY <1>1, <1>2, <2>2 DEF alloc_irq_vector, At, Goto, IrqTyped
    <3>. QED  BY <3>1, <3>2, <3>3, Zenon DEF descvars, devvars
  <2>. QED  BY <2>1, <2>2, Zenon
<1>a. Locked(t)
  BY <1>2, Zenon DEF Locked, Requesting, Freeing
<1>b. /\ d \in Devices /\ irq \in Irqs
      /\ \A u \in Threads : u # t => thread[u].dev # d /\ thread[u].at \in {"no", "program"}
      /\ \A e \in Devices : allocated_pirq[e] # INVALID /\ e # d => ~Removed(e) /\ Complete(e)
      /\ \A e \in Devices : allocated_pirq[e] # INVALID /\ ~Removed(e) => e # d
  BY <1>2, <1>a, Working, Zenon
<1>d. vector[irq] = INVALID /\ allocated_pirq[d] = INVALID /\ irq \in irq_alloc_bitmap
      /\ (irq \in Ioapic \/ \A e \in Devices : allocated_pirq[e] # irq)
  BY <1>1, <1>2, Zenon DEF ThreadInv, Requesting
<1>. HIDE DEF d, irq
<1>4. IrqTyped' /\ TablesInv'
  BY <1>1, <1>2, <1>3, <1>b, <1>d, IrqAssumption DEF IrqTyped, TablesInv
<1>5. /\ LockInv' /\ \A c \in Cpus : CpuInv(c)'
      /\ \A u \in Threads : u # t => ThreadInv(u)'
  BY <1>1, <1>2, <1>3, <1>a, <1>b, <1>d, Locking DEF Complete, IrqTyped, d, irq
<1>6. ASSUME NEW u \in Threads  PROVE ThreadInv(u)'
  <2>1. CASE u = t
    BY <1>1, <1>2, <1>3, <1>b, <1>d, <2>1, IrqAssumption DEF ThreadInv, IrqTyped, Requesting, Freeing
  <2>2. CASE u # t
    BY <1>5, <2>2, Zenon
  <2>. QED  BY <2>1, <2>2, Zenon
<1>7. UseInv'
  <2>1. \A i \in Irqs : Used(i) => Used(i)'
    <3>. thread'[t].at \in Requesting
      BY <1>2, Zenon DEF Requesting
    <3>. QED  BY <1>2, <1>3, StaysUsed, Zenon DEF irq
  <2>2. \A i \in irq_alloc_bitmap' : Used(i)' \/ i \in Ioapic
    BY <1>1, <1>3, <2>1, Zenon DEF UseInv, IrqTyped
  <2>3. ASSUME NEW i \in Irqs, vector'[i] # INVALID  PROVE Used(i)'
    <3>1. CASE i = irq
      BY <1>2, <3>1, Zenon DEF Used, Requesting
    <3>2. CASE i # irq
      BY <1>1, <1>3, <1>b, <2>1, <2>3, <3>2, Zenon DEF UseInv, IrqTyped
    <3>. QED  BY <3>1, <3>2, Zenon
  <2>4. ASSUME NEW e \in Devices, allocated_pirq'[e] # INVALID, ~Removed(e)'
        PROVE  Complete(e)'
    <3>1. e # d /\ allocated_pirq'[e] = allocated_pirq[e]
      BY <1>d, <1>3, <2>4, Zenon
    <3>2. Complete(e)
      BY <1>b, <2>4, <3>1, Zenon
    <3>. QED  BY <1>1, <1>3, <1>b, <1>d, <2>4, <3>1, <3>2, IrqAssumption DEF Complete, IrqTyped
  <2>. QED  BY <2>2, <2>3, <2>4, Zenon DEF UseInv
<1>. QED  BY <1>3, <1>4, <1>5, <1>6, <1>7, <1>1, Zenon DEF IrqIInv

LEMMA Step_free_irq_num ==
    ASSUME IrqIInv, NEW t \in Threads, free_irq_num(t)
    PROVE  IrqIInv'
<1>. DEFINE d == thread[t].dev
           irq == thread[t].irq
<1>1. /\ IrqTyped /\ TablesInv /\ LockInv /\ UseInv
      /\ (\A u \in Threads : ThreadInv(u)) /\ \A c \in Cpus : CpuInv(c)
  BY Zenon DEF IrqIInv
<1>2. /\ thread' \in [Threads -> Calls]
      /\ \A u \in Threads : u # t => thread'[u] = thread[u]
      /\ \/ /\ thread[t].at = "free_num" /\ thread'[t].at = "clear"
            /\ thread'[t].dev = d /\ thread'[t].irq = irq
         \/ thread[t].at = "give_back" /\ thread'[t].at = "no" /\ thread'[t].dev = NULL
  BY <1>1, Moving, Leaving, Zenon DEF free_irq_num, At, Requesting, Freeing
<1>3. /\ UNCHANGED <<vector, vector_to_irq, action, priv_data, allocated_pirq, irte, requests, cpu, wrong, races>>
      /\ irq_alloc_bitmap' = IF irq \in Ioapic THEN irq_alloc_bitmap ELSE irq_alloc_bitmap \ {irq}
  BY Zenon DEF free_irq_num, At, descvars, devvars
<1>a. Locked(t)
  BY <1>2, Zenon DEF Locked, Requesting, Freeing
<1>b. /\ d \in Devices /\ irq \in Irqs
      /\ \A u \in Threads : u # t => thread[u].dev # d /\ thread[u].at \in {"no", "program"}
      /\ \A e \in Devices : allocated_pirq[e] # INVALID /\ e # d => ~Removed(e) /\ Complete(e)
  BY <1>2, <1>a, Working, Zenon
<1>d. /\ thread[t].at = "give_back" => /\ vector[irq] = INVALID /\ allocated_pirq[d] = INVALID
                                       /\ irq \in Ioapic \/ \A e \in Devices : allocated_pirq[e] # irq
      /\ thread[t].at = "free_num" => /\ vector[irq] = INVALID \/ irq \in DOMAIN Static
                                      /\ \A e \in Devices : allocated_pirq[e] = irq => e = d
  BY <1>1, <1>2, <1>b, IrqAssumption DEF ThreadInv, Requesting, Freeing, TablesInv
<1>. HIDE DEF d, irq
<1>4. IrqTyped' /\ TablesInv'
  BY <1>1, <1>2, <1>3, Zenon DEF IrqTyped, TablesInv
<1>5. /\ LockInv' /\ \A c \in Cpus : CpuInv(c)'
      /\ \A u \in Threads : u # t => ThreadInv(u)'
  BY <1>1, <1>2, <1>3, <1>a, Locking, Zenon DEF d
<1>6. ASSUME NEW u \in Threads  PROVE ThreadInv(u)'
  <2>1. CASE u = t
    BY <1>1, <1>2, <1>3, <1>b, <2>1 DEF ThreadInv, Requesting, Freeing, d, irq
  <2>2. CASE u # t
    BY <1>5, <2>2, Zenon
  <2>. QED  BY <2>1, <2>2, Zenon
<1>7. UseInv'
  <2>1. \A i \in Irqs : Used(i) /\ i # irq => Used(i)'
    BY <1>2, <1>3, Zenon DEF Used, irq
  <2>2. ASSUME NEW i \in irq_alloc_bitmap', i \notin Ioapic  PROVE Used(i)'
    BY <1>1, <1>3, <2>1, <2>2, Zenon DEF UseInv, IrqTyped
  <2>3. ASSUME NEW i \in Irqs, vector'[i] # INVALID  PROVE Used(i)'
    <3>1. CASE i = irq
      BY <1>2, <1>3, <1>d, <2>3, <3>1, Zenon DEF Used
    <3>2. CASE i # irq
      BY <1>1, <1>3, <2>1, <2>3, <3>2, Zenon DEF UseInv
    <3>. QED  BY <3>1, <3>2, Zenon
  <2>4. ASSUME NEW e \in Devices, allocated_pirq'[e] # INVALID, ~Removed(e)'
        PROVE  Complete(e)'
    <3>1. e # d
      BY <1>2, <1>3, <1>d, <2>4, Zenon DEF Removed
    <3>2. Complete(e)
      BY <1>b, <1>3, <2>4, <3>1, Zenon
    <3>. QED  BY <1>2, <1>3, <1>d, <3>1, <3>2, Zenon DEF Complete
  <2>. QED  BY <2>2, <2>3, <2>4, Zenon DEF UseInv
<1>. QED  BY <1>1, <1>3, <1>4, <1>5, <1>6, <1>7, Zenon DEF IrqIInv

LEMMA Step_set_action ==
    ASSUME IrqIInv, NEW t \in Threads, set_action(t)
    PROVE  IrqIInv'
<1>. DEFINE d == thread[t].dev
           irq == thread[t].irq
<1>1. /\ IrqTyped /\ TablesInv /\ LockInv /\ UseInv
      /\ (\A u \in Threads : ThreadInv(u)) /\ \A c \in Cpus : CpuInv(c)
  BY Zenon DEF IrqIInv
<1>2. /\ thread' \in [Threads -> Calls] /\ thread[t].at = "action"
      /\ \A u \in Threads : u # t => thread'[u] = thread[u]
      /\ \/ /\ action[irq] = NULL /\ thread'[t].at = "program" /\ thread'[t].dev = d /\ thread'[t].irq = irq
         \/ action[irq] # NULL /\ thread'[t].at = "no" /\ thread'[t].dev = NULL
  BY <1>1, Moving, Leaving, Zenon DEF set_action, At, Requesting, Freeing
<1>3. /\ UNCHANGED <<irq_alloc_bitmap, vector, vector_to_irq, irte, requests, cpu, wrong, races>>
      /\ \/ action[irq] # NULL /\ UNCHANGED <<action, priv_data, allocated_pirq>>
         \/ /\ action[irq] = NULL /\ action' = [action EXCEPT ![irq] = d] /\ priv_data' = [priv_data EXCEPT ![irq] = d]
            /\ allocated_pirq' = [allocated_pirq EXCEPT ![d] = irq]
  BY Zenon DEF set_action, At, descvars
<1>a. Locked(t)
  BY <1>2, Zenon DEF Locked, Requesting, Freeing
<1>b. /\ d \in Devices /\ irq \in Irqs
      /\ \A u \in Threads : u # t => thread[u].dev # d /\ thread[u].at \in {"no", "program"}
      /\ \A e \in Devices : allocated_pirq[e] # INVALID /\ e # d => ~Removed(e) /\ Complete(e)
  BY <1>2, <1>a, Working, Zenon
<1>d. vector[irq] # INVALID /\ allocated_pirq[d] = INVALID /\ irq \in irq_alloc_bitmap /\ irte[d] = NULL
  BY <1>1, <1>2, <1>b, Zenon DEF ThreadInv, Requesting, TablesInv
<1>e. action[irq] = NULL => \A e \in Devices : allocated_pirq[e] # irq
  <2>1. ASSUME NEW e \in Devices, allocated_pirq[e] = irq  PROVE action[irq] # NULL
    <3>1. irq # INVALID /\ e # d
      BY <1>b, <1>d, <2>1, IrqAssumption, Zenon
    <3>2. Complete(e)
      BY <1>b, <2>1, <3>1, Zenon
    <3>. QED  BY <2>1, <3>2, IrqAssumption, Zenon DEF Complete
  <2>. QED  BY <2>1, Zenon
<1>. HIDE DEF d, irq
<1>4. IrqTyped'
  BY <1>1, <1>2, <1>3, <1>b DEF IrqTyped
<1>c. TablesInv'
  BY <1>1, <1>3, <1>b, <1>d, <1>e, IrqAssumption, SMTT(20) DEF TablesInv, IrqTyped
<1>5. /\ LockInv' /\ \A c \in Cpus : CpuInv(c)'
      /\ \A u \in Threads : u # t => ThreadInv(u)'
  BY <1>1, <1>2, <1>3, <1>a, <1>b, Locking, Zenon DEF d, IrqTyped
<1>6. ASSUME NEW u \in Threads  PROVE ThreadInv(u)'
  <2>1. CASE u = t
    BY <1>1, <1>2, <1>3, <1>b, <2>1 DEF ThreadInv, Requesting, Freeing, IrqTyped
  <2>2. CASE u # t
    BY <1>5, <2>2, Zenon
  <2>. QED  BY <2>1, <2>2, Zenon
<1>7. UseInv'
  <2>0. \E e \in Devices : allocated_pirq'[e] = irq
    BY <1>1, <1>3, <1>b, Zenon DEF TablesInv, IrqTyped
  <2>1. \A i \in Irqs : Used(i) => Used(i)'
    <3>. SUFFICES ASSUME NEW i \in Irqs, i # irq, Used(i)  PROVE Used(i)'
      BY <2>0, Zenon DEF Used
    <3>1. \A e \in Devices : allocated_pirq[e] = i => allocated_pirq'[e] = i
      BY <1>1, <1>3, <1>b, <1>d, IrqAssumption DEF IrqTyped
    <3>2. \A u \in Threads : thread[u].irq = i => thread'[u] = thread[u]
      BY <1>2, Zenon DEF irq
    <3>. QED  BY <3>1, <3>2, Zenon DEF Used
  <2>2. \A i \in irq_alloc_bitmap' : Used(i)' \/ i \in Ioapic
    BY <1>1, <1>3, <2>1, Zenon DEF UseInv, IrqTyped
  <2>3. \A i \in Irqs : vector'[i] # INVALID => Used(i)'
    BY <1>1, <1>3, <2>1, Zenon DEF UseInv
  <2>4. ASSUME NEW e \in Devices, allocated_pirq'[e] # INVALID, ~Removed(e)'
        PROVE  Complete(e)'
    <3>1. CASE e # d
      <4>1. Complete(e) /\ allocated_pirq'[e] = allocated_pirq[e]
        BY <1>1, <1>b, <1>3, <2>4, <3>1, Zenon DEF IrqTyped
      <4>. QED  BY <1>1, <1>3, <1>b, <4>1, IrqAssumption DEF Complete, IrqTyped
    <3>2. CASE e = d
      BY <1>1, <1>3, <1>b, <1>d, <2>4, <3>2 DEF Complete, IrqTyped, TablesInv
    <3>. QED  BY <3>1, <3>2, Zenon
  <2>. QED  BY <2>2, <2>3, <2>4, Zenon DEF UseInv
<1>. QED  BY <1>1, <1>3, <1>4, <1>c, <1>5, <1>6, <1>7, Zenon DEF IrqIInv

LEMMA Step_dmar_free_irte ==
    ASSUME IrqIInv, NEW t \in Threads, dmar_free_irte(t)
    PROVE  IrqIInv'
<1>. DEFINE d == thread[t].dev
           irq == thread[t].irq
<1>1. /\ IrqTyped /\ TablesInv /\ LockInv /\ UseInv
      /\ (\A u \in Threads : ThreadInv(u)) /\ \A c \in Cpus : CpuInv(c)
  BY Zenon DEF IrqIInv
<1>2. /\ thread' \in [Threads -> Calls] /\ thread[t].at = "irte"
      /\ \A u \in Threads : u # t => thread'[u] = thread[u]
      /\ thread'[t].at = "no" /\ thread'[t].dev = NULL
  BY <1>1, Leaving, Zenon DEF dmar_free_irte, At
<1>3. /\ UNCHANGED <<irq_alloc_bitmap, vector, vector_to_irq, action, priv_data, requests, cpu, wrong, races>>
      /\ irte' = [irte EXCEPT ![d] = NULL] /\ allocated_pirq' = [allocated_pirq EXCEPT ![d] = INVALID]
  BY Zenon DEF dmar_free_irte, At, descvars
<1>a. Locked(t)
  BY <1>2, Zenon DEF Locked, Freeing
<1>b. /\ d \in Devices /\ irq \in Irqs
      /\ \A u \in Threads : u # t => thread[u].dev # d /\ thread[u].at \in {"no", "program"}
      /\ \A e \in Devices : allocated_pirq[e] # INVALID /\ e # d => ~Removed(e) /\ Complete(e)
  BY <1>2, <1>a, Working, Zenon
<1>d. /\ allocated_pirq[d] = irq /\ action[irq] = NULL /\ (irq \notin irq_alloc_bitmap \/ irq \in Ioapic)
      /\ vector[irq] = INVALID \/ irq \in DOMAIN Static
  BY <1>1, <1>2, Zenon DEF ThreadInv, Freeing
<1>. HIDE DEF d, irq
<1>4. IrqTyped'
  BY <1>1, <1>2, <1>3, <1>b, Zenon DEF IrqTyped
<1>c. TablesInv'
  BY <1>1, <1>3, <1>b, <1>d, IrqAssumption DEF TablesInv, IrqTyped
<1>5. /\ LockInv' /\ \A c \in Cpus : CpuInv(c)'
      /\ \A u \in Threads : u # t => ThreadInv(u)'
  BY <1>1, <1>2, <1>3, <1>a, <1>b, Locking, Zenon DEF d, IrqTyped
<1>6. ASSUME NEW u \in Threads  PROVE ThreadInv(u)'
  <2>1. CASE u = t
    BY <1>2, <2>1, Zenon DEF ThreadInv, Requesting, Freeing
  <2>2. CASE u # t
    BY <1>5, <2>2, Zenon
  <2>. QED  BY <2>1, <2>2, Zenon
<1>7. UseInv'
  <2>1. ASSUME NEW i \in Irqs, Used(i), i # irq  PROVE Used(i)'
    <3>1. \A e \in Devices : allocated_pirq[e] = i => allocated_pirq'[e] = i
      BY <1>1, <1>3, <1>b, <1>d, <2>1, Zenon DEF IrqTyped
    <3>2. \A u \in Threads : thread[u].irq = i => thread'[u] = thread[u]
      BY <1>2, <2>1, Zenon DEF irq
    <3>. QED  BY <2>1, <3>1, <3>2, Zenon DEF Used
  <2>2. \A i \in irq_alloc_bitmap' : Used(i)' \/ i \in Ioapic
    BY <1>1, <1>3, <1>d, <2>1, Zenon DEF UseInv, IrqTyped
  <2>3. ASSUME NEW i \in Irqs, vector'[i] # INVALID  PROVE Used(i)'
    <3>1. CASE i = irq
      BY <1>3, <1>d, <2>3, <3>1, Zenon DEF Used
    <3>2. CASE i # irq
      BY <1>1, <1>3, <2>1, <2>3, <3>2, Zenon DEF UseInv
    <3>. QED  BY <3>1, <3>2, Zenon
  <2>4. ASSUME NEW e \in Devices, allocated_pirq'[e] # INVALID, ~Removed(e)'
        PROVE  Complete(e)'
    <3>1. e # d /\ allocated_pirq'[e] = allocated_pirq[e] /\ irte'[e] = irte[e]
      BY <1>1, <1>3, <2>4, Zenon DEF IrqTyped
    <3>. QED  BY <1>b, <1>3, <2>4, <3>1 DEF Complete
  <2>. QED  BY <2>2, <2>3, <2>4, Zenon DEF UseInv
<1>. QED  BY <1>1, <1>3, <1>4, <1>c, <1>5, <1>6, <1>7, Zenon DEF IrqIInv

(* While nobody holds the lock, every active device is complete; a thread
   that takes it leaves the others as they are. *)
LEMMA Unlocked ==
    ASSUME IrqIInv, ptdev_lock
    PROVE  /\ \A e \in Devices : ~Removed(e)
           /\ \A e \in Devices : allocated_pirq[e] # INVALID => Complete(e)
<1>1. IrqTyped /\ UseInv
  BY Zenon DEF IrqIInv
<1>2. \A e \in Devices : ~Removed(e)
  BY <1>1, Entry, IrqAssumption, Zenon DEF Removed, ptdev_lock
<1>. QED  BY <1>1, <1>2, Zenon DEF UseInv

LEMMA Taking ==
    ASSUME IrqIInv, NEW t \in Threads, NEW d \in Devices, ptdev_lock, Untouched(d), thread'[t].dev = d,
           \A u \in Threads : u # t => thread'[u] = thread[u]
    PROVE  LockInv' /\ \A e \in Devices : e # d => ~Removed(e)'
<1>1. IrqTyped /\ LockInv
  BY Zenon DEF IrqIInv
<1>2. LockInv'
  BY <1>1 DEF LockInv, ptdev_lock, Untouched, Locked, Requesting, Freeing
<1>3. ASSUME NEW e \in Devices, e # d  PROVE ~Removed(e)'
  BY <1>1, <1>3, Entry, IrqAssumption DEF Removed, ptdev_lock
<1>. QED  BY <1>2, <1>3, Zenon

LEMMA Step_find_ptirq_entry ==
    ASSUME IrqIInv, NEW t \in Threads, NEW d \in Devices, find_ptirq_entry(t, d)
    PROVE  IrqIInv'
<1>1. /\ IrqTyped /\ TablesInv /\ LockInv /\ UseInv
      /\ (\A u \in Threads : ThreadInv(u)) /\ \A c \in Cpus : CpuInv(c)
  BY Zenon DEF IrqIInv
<1>2. /\ thread[t].at = "no" /\ ptdev_lock /\ Untouched(d) /\ allocated_pirq[d] \in Irqs
      /\ UNCHANGED <<irq_alloc_bitmap, vector, vector_to_irq, action, priv_data, allocated_pirq, irte,
                     requests, cpu, wrong, races>>
  BY <1>1, Zenon DEF find_ptirq_entry, At, descvars, devvars, IrqTyped
<1>3. /\ thread' \in [Threads -> Calls]
      /\ thread'[t].at = "program" /\ thread'[t].dev = d /\ thread'[t].irq = allocated_pirq[d]
      /\ \A u \in Threads : u # t => thread'[u] = thread[u]
  BY <1>1, <1>2, Entering, Zenon DEF find_ptirq_entry
<1>4. IrqTyped' /\ TablesInv'
  BY <1>1, <1>2, <1>3, Zenon DEF IrqTyped, TablesInv
<1>5. LockInv' /\ \A e \in Devices : e # d => ~Removed(e)'
  BY <1>2, <1>3, Taking, Zenon
<1>6. ~Removed(d)'
  BY <1>2, <1>3, Zenon DEF Removed, Untouched
<1>7. ASSUME NEW u \in Threads  PROVE ThreadInv(u)'
  BY <1>1, <1>2, <1>3 DEF ThreadInv, Requesting, Freeing
<1>8. UseInv'
  <2>1. \A i \in Irqs : Used(i) => Used(i)'
    BY <1>2, <1>3, StaysUsed, Zenon DEF Requesting
  <2>2. \A e \in Devices : allocated_pirq[e] # INVALID => Complete(e)
    BY <1>2, Unlocked, Zenon
  <2>. QED  BY <1>1, <1>2, <2>1, <2>2, Zenon DEF UseInv, Complete, IrqTyped
<1>9. ASSUME NEW c \in Cpus  PROVE CpuInv(c)'
  BY <1>1, <1>2, <1>5, <1>6, Zenon DEF CpuInv
<1>. QED  BY <1>1, <1>2, <1>4, <1>5, <1>7, <1>8, <1>9, Zenon DEF IrqIInv

LEMMA Step_remove_remapping ==
    ASSUME IrqIInv, NEW t \in Threads, NEW d \in Devices, remove_remapping(t, d)
    PROVE  IrqIInv'
<1>1. /\ IrqTyped /\ TablesInv /\ LockInv /\ UseInv
      /\ (\A u \in Threads : ThreadInv(u)) /\ \A c \in Cpus : CpuInv(c)
  BY Zenon DEF IrqIInv
<1>2. /\ thread[t].at = "no" /\ ptdev_lock /\ Untouched(d) /\ allocated_pirq[d] \in Irqs
      /\ UNCHANGED <<irq_alloc_bitmap, vector, vector_to_irq, action, priv_data, allocated_pirq, irte,
                     requests, cpu, wrong, races>>
  BY <1>1, Zenon DEF remove_remapping, At, descvars, devvars, IrqTyped
<1>3. /\ thread' \in [Threads -> Calls]
      /\ thread'[t].at \in {"free", "irte_first"} /\ thread'[t].dev = d /\ thread'[t].irq = allocated_pirq[d]
      /\ \A u \in Threads : u # t => thread'[u] = thread[u]
  <2>1. PICK at \in {"free", "irte_first"} :
           thread' = [thread EXCEPT ![t] = [at |-> at, dev |-> d, irq |-> allocated_pirq[d]]]
    BY Zenon DEF remove_remapping
  <2>2. at \in Requesting \union Freeing \union {"program"}
    BY Zenon DEF Freeing
  <2>. QED  BY <1>1, <1>2, <2>1, <2>2, Entering, Zenon
<1>4. IrqTyped' /\ TablesInv'
  BY <1>1, <1>2, <1>3, Zenon DEF IrqTyped, TablesInv
<1>5. LockInv' /\ \A e \in Devices : e # d => ~Removed(e)'
  BY <1>2, <1>3, Taking, Zenon
<1>6. ASSUME NEW u \in Threads  PROVE ThreadInv(u)'
  <2>1. CASE u = t
    BY <1>2, <1>3, <2>1, Zenon DEF ThreadInv, Requesting, Freeing
  <2>2. CASE u # t
    <3>1. ThreadInv(u) /\ thread'[u] = thread[u]
      BY <1>1, <1>2, <1>3, <2>2, Zenon
    <3>2. irq_alloc_bitmap' = irq_alloc_bitmap /\ vector' = vector /\ action' = action /\ allocated_pirq' = allocated_pirq
      BY <1>2, <1>3, Zenon
    <3>. QED  BY <3>1, <3>2, Zenon DEF ThreadInv
  <2>. QED  BY <2>1, <2>2, Zenon
<1>7. UseInv'
  <2>1. \A i \in Irqs : Used(i) => Used(i)'
    BY <1>2, <1>3, StaysUsed, Zenon DEF Requesting
  <2>2. \A e \in Devices : allocated_pirq[e] # INVALID => Complete(e)
    BY <1>2, Unlocked, Zenon
  <2>. QED  BY <1>1, <1>2, <2>1, <2>2, Zenon DEF UseInv, Complete, IrqTyped
<1>8. ASSUME NEW c \in Cpus  PROVE CpuInv(c)'
  <2>1. "inflight" \notin races => cpu[c].from # d
    BY Zenon DEF remove_remapping
  <2>. QED  BY <1>1, <1>2, <1>5, <2>1, Zenon DEF CpuInv
<1>. QED  BY <1>1, <1>2, <1>4, <1>5, <1>6, <1>7, <1>8, Zenon DEF IrqIInv

LEMMA Step_alloc_irq_num ==
    ASSUME IrqIInv, NEW t \in Threads, NEW d \in Devices, alloc_irq_num(t, d)
    PROVE  IrqIInv'
<1>. DEFINE free == Irqs \ irq_alloc_bitmap
<1>1. /\ IrqTyped /\ TablesInv /\ LockInv /\ UseInv
      /\ (\A u \in Threads : ThreadInv(u)) /\ \A c \in Cpus : CpuInv(c)
  BY Zenon DEF IrqIInv
<1>2. /\ thread[t].at = "no" /\ ptdev_lock /\ Untouched(d) /\ allocated_pirq[d] = INVALID
      /\ UNCHANGED <<vector, vector_to_irq, action, priv_data, allocated_pirq, irte, cpu, wrong, races>>
  BY Zenon DEF alloc_irq_num, At, descvars, devvars
<1>a. CASE UNCHANGED <<irq_alloc_bitmap, thread>>
  BY <1>2, <1>a, Idle, Zenon
<1>b. CASE ~ UNCHANGED <<irq_alloc_bitmap, thread>>
  <2>1. PICK irq \in IF pin[d] # INVALID THEN {pin[d]} ELSE Lowest(free) :
              /\ irq_alloc_bitmap' = irq_alloc_bitmap \union {irq}
              /\ thread' = [thread EXCEPT ![t] = [at |-> "vector", dev |-> d, irq |-> irq]]
    BY <1>b, Zenon DEF alloc_irq_num
  <2>2. irq \in Irqs /\ (irq \in Ioapic \/ irq \notin irq_alloc_bitmap)
    BY IrqAssumption, Zenon DEF Lowest
  <2>3. /\ thread' \in [Threads -> Calls]
        /\ thread'[t].at = "vector" /\ thread'[t].dev = d /\ thread'[t].irq = irq
        /\ \A u \in Threads : u # t => thread'[u] = thread[u]
    BY <1>1, <2>1, <2>2, Entering, Zenon DEF Requesting
  <2>4. IrqTyped' /\ TablesInv'
    BY <1>1, <1>2, <2>1, <2>2, <2>3, Zenon DEF IrqTyped, TablesInv
  <2>5. LockInv' /\ \A e \in Devices : e # d => ~Removed(e)'
    BY <1>2, <2>3, Taking, Zenon
  <2>6. \A e \in Devices : allocated_pirq[e] # INVALID => Complete(e)
    BY <1>2, Unlocked, Zenon
  <2>7. ASSUME NEW u \in Threads  PROVE ThreadInv(u)'
    <3>1. CASE u = t
      <4>1. irq \in Ioapic \/ \A e \in Devices : allocated_pirq[e] # irq
        <5>. SUFFICES ASSUME NEW e \in Devices, allocated_pirq[e] = irq  PROVE irq \in Ioapic
          OBVIOUS
        <5>1. Complete(e)
          BY <2>2, <2>6, IrqAssumption
        <5>. QED  BY <2>2, <5>1 DEF Complete
      <4>. QED  BY <1>2, <2>1, <2>3, <3>1, <4>1, Zenon DEF ThreadInv, Requesting, Freeing
    <3>2. CASE u # t
      BY <1>1, <1>2, <2>1, <2>3, <3>2, Entry, Zenon DEF ThreadInv, ptdev_lock, Requesting, Freeing
    <3>. QED  BY <3>1, <3>2, Zenon
  <2>8. UseInv'
    <3>1. \A i \in Irqs : Used(i) => Used(i)'
      BY <1>2, <2>3, StaysUsed, Zenon DEF Requesting
    <3>2. Used(irq)'
      BY <2>3, Zenon DEF Used, Requesting
    <3>. QED  BY <1>1, <1>2, <2>1, <2>6, <3>1, <3>2, Zenon DEF UseInv, Complete, IrqTyped
  <2>9. ASSUME NEW c \in Cpus  PROVE CpuInv(c)'
    BY <1>1, <1>2, <2>5, Zenon DEF CpuInv
  <2>. QED  BY <1>1, <1>2, <2>4, <2>5, <2>7, <2>8, <2>9, Zenon DEF IrqIInv
<1>. QED  BY <1>a, <1>b, Zenon

LEMMA Step_dmar_assign_irte ==
    ASSUME IrqIInv, NEW t \in Threads, dmar_assign_irte(t)
    PROVE  IrqIInv'
<1>. DEFINE d == thread[t].dev
<1>1. /\ IrqTyped /\ TablesInv /\ LockInv /\ UseInv
      /\ (\A u \in Threads : ThreadInv(u)) /\ \A c \in Cpus : CpuInv(c)
  BY Zenon DEF IrqIInv
<1>2. /\ thread' \in [Threads -> Calls] /\ thread[t].at = "program"
      /\ \A u \in Threads : u # t => thread'[u] = thread[u]
      /\ thread'[t].at = "no" /\ thread'[t].dev = NULL
  BY <1>1, Leaving, Zenon DEF dmar_assign_irte, At
<1>3. /\ UNCHANGED <<irq_alloc_bitmap, vector, vector_to_irq, action, priv_data, allocated_pirq, requests, cpu, wrong, races>>
      /\ irte' = [irte EXCEPT ![d] = vector[allocated_pirq[d]]]
  BY Zenon DEF dmar_assign_irte, At, descvars
<1>b. /\ d \in Devices /\ allocated_pirq[d] \in Irqs
      /\ \A u \in Threads : u # t => thread[u].dev # d
  BY <1>1, <1>2, Entry, Zenon DEF ThreadInv, LockInv
<1>c. ~Removed(d)
  BY <1>2, <1>b, Zenon DEF Removed
<1>d. Complete(d)
  BY <1>1, <1>b, <1>c, IrqAssumption, Zenon DEF UseInv
<1>e. \A e \in Devices : Removed(e)' <=> Removed(e)
  BY <1>2, IrqAssumption, Zenon DEF Removed
<1>. HIDE DEF d
<1>4. IrqTyped' /\ TablesInv'
  BY <1>1, <1>2, <1>3, <1>b, <1>d, IrqAssumption DEF IrqTyped, TablesInv, Complete
<1>5. LockInv'
  BY <1>1, <1>2, IrqAssumption DEF LockInv, Locked, Requesting, Freeing
<1>6. ASSUME NEW u \in Threads  PROVE ThreadInv(u)'
  <2>1. CASE u = t
    BY <1>2, <2>1, Zenon DEF ThreadInv, Requesting, Freeing
  <2>2. CASE u # t
    <3>1. ThreadInv(u) /\ thread'[u] = thread[u]
      BY <1>1, <1>2, <2>2, Zenon
    <3>2. irq_alloc_bitmap' = irq_alloc_bitmap /\ vector' = vector /\ action' = action /\ allocated_pirq' = allocated_pirq
      BY <1>2, <1>3, Zenon
    <3>. QED  BY <3>1, <3>2, Zenon DEF ThreadInv
  <2>. QED  BY <2>1, <2>2
<1>7. UseInv'
  <2>1. \A i \in Irqs : Used(i) => Used(i)'
    BY <1>2, <1>3, StaysUsed, Zenon DEF Requesting
  <2>2. ASSUME NEW e \in Devices, allocated_pirq'[e] # INVALID, ~Removed(e)'
        PROVE  Complete(e)'
    BY <1>1, <1>3, <1>e, <2>2, Zenon DEF UseInv, Complete, IrqTyped
  <2>. QED  BY <1>1, <1>3, <2>1, <2>2, Zenon DEF UseInv, IrqTyped
<1>8. ASSUME NEW c \in Cpus  PROVE CpuInv(c)'
  <2>. SUFFICES ASSUME "inflight" \notin races, cpu[c].at # "no"
                PROVE  CpuInv(c)'
    BY <1>3, Zenon DEF CpuInv
  <2>1. PICK e \in Devices : e = cpu[c].from /\ ~Removed(e)
    BY <1>1, Zenon DEF CpuInv
  <2>. QED  BY <1>1, <1>3, <1>e, <2>1, Zenon DEF CpuInv
<1>. QED  BY <1>1, <1>3, <1>4, <1>5, <1>6, <1>7, <1>8, Zenon DEF IrqIInv

(* Interrupts only change their own pCPU, and wrong. *)
LEMMA Interrupting ==
    ASSUME IrqIInv, NEW c \in Cpus, NEW where, Cpu(c, where), cpu' \in [Cpus -> Interrupts],
           \A x \in Cpus : x # c => cpu'[x] = cpu[x], CpuInv(c)',
           wrong' \in BOOLEAN, "inflight" \notin races => ~wrong'
    PROVE  IrqIInv'
<1>1. UNCHANGED <<irq_alloc_bitmap, vector, vector_to_irq, action, priv_data, allocated_pirq, irte, thread, races>>
  BY Zenon DEF Cpu, descvars, devvars
<1>2. IrqTyped' /\ TablesInv' /\ LockInv'
  BY <1>1, Zenon DEF IrqIInv, IrqTyped, TablesInv, LockInv, Locked
<1>3. ASSUME NEW u \in Threads  PROVE ThreadInv(u)'
  BY <1>1, Zenon DEF IrqIInv, ThreadInv
<1>4. UseInv'
  BY <1>1 DEF IrqIInv, UseInv, Used, Complete, Removed
<1>5. ASSUME NEW x \in Cpus  PROVE CpuInv(x)'
  BY <1>1 DEF IrqIInv, CpuInv, Removed
<1>. QED  BY <1>1, <1>2, <1>3, <1>4, <1>5, Zenon DEF IrqIInv

LEMMA Ending ==
    ASSUME IrqIInv, NEW c \in Cpus, NEW where, Cpu(c, where), NEW right, Ends(c, right),
           "inflight" \notin races => right
    PROVE  IrqIInv'
<1>1. IrqTyped /\ ("inflight" \notin races => ~wrong)
  BY Zenon DEF IrqIInv
<1>2. /\ cpu' \in [Cpus -> Interrupts] /\ cpu'[c].at = "no"
      /\ \A x \in Cpus : x # c => cpu'[x] = cpu[x]
  BY <1>1, IrqAssumption, Zenon DEF Ends, IrqTyped, Interrupts, NoInterrupt
<1>3. wrong' \in BOOLEAN /\ ("inflight" \notin races => ~wrong')
  BY <1>1, Zenon DEF Ends
<1>4. CpuInv(c)'
  BY <1>2, Zenon DEF CpuInv
<1>. QED  BY <1>2, <1>3, <1>4, Interrupting, Zenon

LEMMA Step_interrupt ==
    ASSUME IrqIInv, NEW c \in Cpus, NEW d \in Devices, interrupt(c, d)
    PROVE  IrqIInv'
<1>1. IrqTyped /\ TablesInv /\ UseInv
  BY Zenon DEF IrqIInv
<1>2. /\ Cpu(c, "no") /\ irte[d] # NULL /\ ("inflight" \in races \/ ~Removed(d)) /\ UNCHANGED wrong
      /\ cpu' = [cpu EXCEPT ![c] = [at |-> "lookup", vec |-> irte[d], from |-> d, irq |-> INVALID, action |-> NULL]]
  BY Zenon DEF interrupt
<1>3. cpu' \in [Cpus -> Interrupts] /\ \A x \in Cpus : x # c => cpu'[x] = cpu[x]
  BY <1>1, <1>2, Zenon DEF IrqTyped, Interrupts
<1>4. CpuInv(c)'
  BY <1>1, <1>2 DEF CpuInv, IrqTyped, TablesInv, UseInv, Complete, Removed, Cpu, descvars, devvars
<1>. QED  BY <1>1, <1>2, <1>3, <1>4, Interrupting, Zenon DEF IrqIInv, IrqTyped

LEMMA Step_dispatch_interrupt ==
    ASSUME IrqIInv, NEW c \in Cpus, dispatch_interrupt(c)
    PROVE  IrqIInv'
<1>. DEFINE irq == vector_to_irq[cpu[c].vec]
<1>1. IrqTyped /\ TablesInv /\ UseInv /\ CpuInv(c) /\ ("inflight" \notin races => ~wrong)
  BY Zenon DEF IrqIInv
<1>2. /\ UNCHANGED <<irq_alloc_bitmap, vector, vector_to_irq, action, priv_data, allocated_pirq, irte, thread, races>>
      /\ cpu[c].at = "lookup" /\ Cpu(c, "lookup")
  BY Zenon DEF dispatch_interrupt, Cpu, descvars, devvars
<1>3. "inflight" \notin races => irq = allocated_pirq[cpu[c].from] /\ irq # INVALID
  BY <1>1, <1>2 DEF CpuInv, UseInv, Complete
<1>4. irq \in Irqs \union {INVALID}
  BY <1>1, <1>2, Zenon DEF IrqTyped, Interrupts
<1>5. IF irq = INVALID THEN Ends(c, FALSE)
      ELSE cpu' = [cpu EXCEPT ![c] = [cpu[c] EXCEPT !.at = "verify", !.irq = irq]] /\ UNCHANGED wrong
  BY Zenon DEF dispatch_interrupt
<1>. HIDE DEF irq
<1>6. CASE irq = INVALID
  BY <1>1, <1>2, <1>3, <1>5, <1>6, Ending, Zenon
<1>7. CASE irq # INVALID
  <2>1. /\ cpu'[c].at = "verify" /\ cpu'[c].vec = cpu[c].vec /\ cpu'[c].from = cpu[c].from /\ cpu'[c].irq = irq
        /\ cpu' \in [Cpus -> Interrupts] /\ (\A x \in Cpus : x # c => cpu'[x] = cpu[x]) /\ wrong' = wrong
    <3>. DEFINE r == [cpu[c] EXCEPT !.at = "verify", !.irq = irq]
    <3>1. r \in Interrupts /\ r.at = "verify" /\ r.vec = cpu[c].vec /\ r.from = cpu[c].from /\ r.irq = irq
      BY <1>1, <1>4, <1>7, Zenon DEF IrqTyped, Interrupts
    <3>2. cpu' = [cpu EXCEPT ![c] = r] /\ wrong' = wrong
      BY <1>5, <1>7, Zenon
    <3>. HIDE DEF r
    <3>. QED  BY <1>1, <3>1, <3>2, Zenon DEF IrqTyped
  <2>2. CpuInv(c)'
    BY <1>1, <1>2, <1>3, <2>1, Zenon DEF CpuInv, Removed
  <2>. QED  BY <1>1, <1>2, <2>1, <2>2, Interrupting, Zenon DEF IrqTyped
<1>. QED  BY <1>6, <1>7, Zenon

LEMMA Step_verify ==
    ASSUME IrqIInv, NEW c \in Cpus, verify(c)
    PROVE  IrqIInv'
<1>. DEFINE irq == cpu[c].irq
           spurious == cpu[c].vec # vector[irq] \/ irq \notin irq_alloc_bitmap
<1>1. IrqTyped /\ TablesInv /\ UseInv /\ CpuInv(c) /\ ("inflight" \notin races => ~wrong)
  BY Zenon DEF IrqIInv
<1>2. /\ UNCHANGED <<irq_alloc_bitmap, vector, vector_to_irq, action, priv_data, allocated_pirq, irte, thread, races>>
      /\ cpu[c].at = "verify" /\ Cpu(c, "verify")
  BY Zenon DEF verify, Cpu, descvars, devvars
<1>3. "inflight" \notin races => irq = allocated_pirq[cpu[c].from] /\ ~spurious /\ action[irq] = cpu[c].from
  BY <1>1, <1>2, Zenon DEF CpuInv, UseInv, Complete
<1>4. irq \in Irqs
  BY <1>1, <1>2, Zenon DEF IrqTyped, Interrupts
<1>5. IF spurious THEN Ends(c, FALSE)
      ELSE cpu' = [cpu EXCEPT ![c] = [cpu[c] EXCEPT !.at = "handle", !.action = action[irq]]] /\ UNCHANGED wrong
  BY Zenon DEF verify
<1>. HIDE DEF spurious
<1>6. CASE spurious
  BY <1>1, <1>2, <1>3, <1>5, <1>6, Ending, Zenon
<1>7. CASE ~spurious
  <2>1. /\ cpu'[c].at = "handle" /\ cpu'[c].vec = cpu[c].vec /\ cpu'[c].from = cpu[c].from
        /\ cpu'[c].irq = irq /\ cpu'[c].action = action[irq]
        /\ cpu' \in [Cpus -> Interrupts] /\ (\A x \in Cpus : x # c => cpu'[x] = cpu[x]) /\ wrong' = wrong
    <3>. DEFINE r == [cpu[c] EXCEPT !.at = "handle", !.action = action[irq]]
    <3>1. r \in Interrupts /\ r.at = "handle" /\ r.vec = cpu[c].vec /\ r.from = cpu[c].from /\ r.irq = irq /\ r.action = action[irq]
      BY <1>1, <1>4, <1>7, ZenonT(30) DEF IrqTyped, Interrupts
    <3>2. cpu' = [cpu EXCEPT ![c] = r] /\ wrong' = wrong
      BY <1>5, <1>7, Zenon
    <3>. HIDE DEF r
    <3>. QED  BY <1>1, <3>1, <3>2, Zenon DEF IrqTyped
  <2>2. CpuInv(c)'
    BY <1>1, <1>2, <1>3, <2>1, Zenon DEF CpuInv, Removed
  <2>. QED  BY <1>1, <1>2, <2>1, <2>2, Interrupting, Zenon DEF IrqTyped
<1>. QED  BY <1>6, <1>7, Zenon

LEMMA Step_handle_irq ==
    ASSUME IrqIInv, NEW c \in Cpus, handle_irq(c)
    PROVE  IrqIInv'
<1>. DEFINE right == cpu[c].action = cpu[c].from /\ priv_data[cpu[c].irq] = cpu[c].from
<1>1. IrqTyped /\ UseInv /\ CpuInv(c) /\ ("inflight" \notin races => ~wrong)
  BY Zenon DEF IrqIInv
<1>2. Cpu(c, "handle") /\ cpu[c].at = "handle" /\ Ends(c, right)
  BY Zenon DEF handle_irq, Cpu
<1>3. "inflight" \notin races => right
  BY <1>1, <1>2, Zenon DEF CpuInv, UseInv, Complete
<1>. HIDE DEF right
<1>. QED  BY <1>1, <1>2, <1>3, Ending, Zenon

(* The tables that requests and removals keep, and the interrupts that find
   in them what their device asked for: the inductive invariant of irq.c. *)
THEOREM IrqInvariance == IrqSpec => []IrqIInv
<1>1. IrqInit => IrqIInv
  <2>. SUFFICES ASSUME IrqInit  PROVE IrqIInv
    OBVIOUS
  <2>1. IrqTyped
    <3>1. vector \in [Irqs -> Vectors \union {INVALID}]
      BY Zenon DEF IrqInit, Vectors
    <3>2. vector_to_irq \in [Vectors -> Irqs \union {INVALID}]
      BY IrqAssumption, Zenon DEF IrqInit
    <3>. QED  BY <3>1, <3>2, IrqAssumption, Zenon DEF IrqInit, IrqTyped, Calls, Interrupts, NoInterrupt
  <2>2. TablesInv
    BY <2>1, IrqAssumption, Zenon DEF IrqInit, TablesInv, IrqTyped, Vectors
  <2>3. LockInv /\ (\A t \in Threads : ThreadInv(t)) /\ \A c \in Cpus : CpuInv(c)
    BY IrqAssumption, Zenon DEF IrqInit, LockInv, Locked, ThreadInv, CpuInv, None, NoInterrupt, Requesting, Freeing
  <2>4. UseInv
    BY IrqAssumption, Zenon DEF IrqInit, UseInv, Used
  <2>. QED  BY <2>1, <2>2, <2>3, <2>4, Zenon DEF IrqInit, IrqIInv
<1>2. IrqIInv /\ [IrqNext]_irqvars => IrqIInv'
  <2>. SUFFICES ASSUME IrqIInv, [IrqNext]_irqvars  PROVE IrqIInv'
    OBVIOUS
  <2>1. ASSUME NEW t \in Threads, NEW d \in Devices,
               find_ptirq_entry(t, d) \/ alloc_irq_num(t, d) \/ remove_remapping(t, d)
        PROVE  IrqIInv'
    BY <2>1, Step_find_ptirq_entry, Step_alloc_irq_num, Step_remove_remapping, Zenon
  <2>2. ASSUME NEW t \in Threads,
               \/ has_vector(t) \/ alloc_irq_vector(t) \/ set_action(t) \/ dmar_assign_irte(t)
               \/ release_cb(t) \/ free_irq_vector(t) \/ free_irq_num(t) \/ clear_action(t)
               \/ dmar_free_irte(t)
        PROVE  IrqIInv'
    BY <2>2, Step_has_vector, Step_alloc_irq_vector, Step_set_action, Step_dmar_assign_irte, Step_release_cb,
       Step_free_irq_vector, Step_free_irq_num, Step_clear_action, Step_dmar_free_irte, Zenon
  <2>3. ASSUME NEW c \in Cpus, \/ \E d \in Devices : interrupt(c, d)
                               \/ dispatch_interrupt(c) \/ verify(c) \/ handle_irq(c)
        PROVE  IrqIInv'
    BY <2>3, Step_interrupt, Step_dispatch_interrupt, Step_verify, Step_handle_irq, Zenon
  <2>4. ASSUME UNCHANGED irqvars  PROVE IrqIInv'
    BY <2>4, Idle, Zenon DEF irqvars
  <2>. QED  BY <2>1, <2>2, <2>3, <2>4, Zenon DEF IrqNext
<1>. QED  BY <1>1, <1>2, PTL DEF IrqSpec

(* Whatever devices, threads and pCPUs there are: an active device has its
   number, vector, handler and remapping entry, requests that fail half way
   leave nothing behind, and interrupts run the handler of their device. *)
THEOREM IrqInvThm == IrqSpec => []IrqInv
<1>1. IrqIInv => IrqInv
  <2>. SUFFICES ASSUME IrqIInv  PROVE IrqInv
    OBVIOUS
  <2>1. IrqTyped /\ TablesInv /\ UseInv /\ ("inflight" \notin races => ~wrong)
    BY Zenon DEF IrqIInv
  <2>2. ASSUME ptdev_lock, NEW i \in Irqs, Used(i)  PROVE i \in InUse
    BY <2>2, Zenon DEF Used, InUse, ptdev_lock, Requesting
  <2>. QED  BY <2>1, <2>2, Zenon DEF IrqInv, IrqTyped, TablesInv, UseInv
<1>. QED  BY <1>1, IrqInvariance, PTL
=============================================================================

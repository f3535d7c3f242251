-------------------------- MODULE InterruptProofs ---------------------------
(***************************************************************************)
(* Interrupts on their way to a guest.                                     *)
(*                                                                         *)
(* The level interrupt of a passthrough device (PtIntx), for any number of *)
(* operations. The inductive invariant adds to PtIntxInv that a virtual    *)
(* pin with remote_irr set has its vector in the vLAPIC, that entry,       *)
(* physical pin and unmasked virtual pin of the owner agree, and what each *)
(* step of the softirq has still to do.                                    *)
(*                                                                         *)
(* The virtual PIC (Vpic), for any number of pins: the announcement that   *)
(* VpicInv asks for is that of vpic_notify_intr, at the end of every       *)
(* operation, which looks at the slave before the master.                  *)
(***************************************************************************)
EXTENDS PtIntx, Vpic, TLAPS

Rte == [mask : BOOLEAN, level : BOOLEAN, alo : BOOLEAN, remote_irr : BOOLEAN]
Vint == {"none", "pending", "serving", "acked"}
VirtualPin == [rte : Rte, high : BOOLEAN, vint : Vint]

PtTyped ==
    /\ line \in BOOLEAN /\ pin \in [mask : BOOLEAN, level : BOOLEAN, irr : BOOLEAN]
    /\ entry \in [vm : VMs, polarity : BOOLEAN] \union {NULL}
    /\ delta \in BOOLEAN /\ queued \in BOOLEAN
    /\ timer \in [started : BOOLEAN, expired : BOOLEAN]
    /\ soft \in {"idle", "check", "handle", "edge", "level"}
    /\ rte \in [VMs -> Rte] /\ pin_state \in [VMs -> BOOLEAN] /\ vint \in [VMs -> Vint]
    /\ writing \in [VMs -> {"no", "remap", "plain"}]

(* A virtual pin that waits for an EOI has its vector in the vLAPIC.       *)
IrrInv == \A v \in VMs : rte[v].remote_irr => vint[v] # "none"

(* An unmasked virtual pin of the owner has the polarity of the entry, and *)
(* the write that unmasked it went to the physical pin as well.            *)
OwnerInv == \A v \in VMs : Owner = v /\ ~rte[v].mask =>
                rte[v].alo = entry.polarity /\ writing[v] # "plain"

(* A level-triggered pin whose owner listens: when it is asserted it waits *)
(* for an EOI; when the physical pin is masked the interrupt is on its way,*)
(* or its EOI, which unmasks the pin or finds the virtual pin asserted, is *)
(* still to come.                                                          *)
Listens(v) == Owner = v /\ ~rte[v].mask /\ rte[v].level /\ writing[v] = "no"
Asserted(v) == pin_state[v] # rte[v].alo
Coming == queued \/ timer.started
PinOK(v) ==
    Listens(v) =>
        /\ Asserted(v) => rte[v].remote_irr
        /\ pin.mask => \/ Coming \/ soft # "idle"
                       \/ rte[v].remote_irr /\ (vint[v] = "acked" => Asserted(v))
        /\ pin.mask /\ soft = "edge" => Coming
PinInv == \A v \in VMs : PinOK(v)

PtIInv == PtTyped /\ IrrInv /\ OwnerInv /\ PinInv

-----------------------------------------------------------------------------
(* What a step of a virtual pin keeps.                                     *)
Follows(x, y) ==
    /\ y \in VirtualPin
    /\ y.rte.mask = x.rte.mask /\ y.rte.level = x.rte.level /\ y.rte.alo = x.rte.alo
    /\ x.rte.remote_irr /\ x.rte.level => y.rte.remote_irr
    /\ (x.rte.remote_irr => x.vint # "none") => (y.rte.remote_irr => y.vint # "none")
    /\ x.vint # "none" => y.vint = x.vint

LEMMA Reading ==
    ASSUME PtTyped, NEW v \in VMs
    PROVE  /\ Vpin(v) \in VirtualPin
           /\ Vpin(v).rte = rte[v] /\ Vpin(v).high = pin_state[v] /\ Vpin(v).vint = vint[v]
<1>1. rte[v] \in Rte /\ pin_state[v] \in BOOLEAN /\ vint[v] \in Vint
  BY Zenon DEF PtTyped
<1>. QED  BY <1>1, Zenon DEF Vpin, VirtualPin

LEMMA Writing ==
    ASSUME PtTyped, NEW v \in VMs, NEW x \in VirtualPin, SetVpin(v, x)
    PROVE  /\ rte' \in [VMs -> Rte] /\ pin_state' \in [VMs -> BOOLEAN] /\ vint' \in [VMs -> Vint]
           /\ rte'[v] = x.rte /\ pin_state'[v] = x.high /\ vint'[v] = x.vint
           /\ \A w \in VMs : w # v => /\ rte'[w] = rte[w] /\ pin_state'[w] = pin_state[w]
                                      /\ vint'[w] = vint[w]
<1>1. x.rte \in Rte /\ x.high \in BOOLEAN /\ x.vint \in Vint
  BY Zenon DEF VirtualPin
<1>. QED  BY <1>1, Zenon DEF PtTyped, SetVpin

LEMMA Generating ==
    ASSUME NEW x \in VirtualPin, NEW y, y = vioapic_generate_intr(x)
    PROVE  /\ Follows(x, y) /\ y.high = x.high
           /\ ~x.rte.mask /\ x.rte.level => y.rte.remote_irr
<1>1. CASE x.rte.mask \/ (x.rte.level /\ x.rte.remote_irr)
  <2>1. y = x
    BY <1>1, Zenon DEF vioapic_generate_intr
  <2>. QED  BY <1>1, <2>1, Zenon DEF Follows
<1>2. CASE ~(x.rte.mask \/ (x.rte.level /\ x.rte.remote_irr))
  <2>1. y = [x EXCEPT !.rte.remote_irr = x.rte.level, !.vint = IF @ = "none" THEN "pending" ELSE @]
    BY <1>2, Zenon DEF vioapic_generate_intr
  <2>2. x.rte \in Rte /\ x.high \in BOOLEAN /\ x.vint \in Vint
    BY Zenon DEF VirtualPin
  <2>3. /\ y.rte = [x.rte EXCEPT !.remote_irr = x.rte.level] /\ y.high = x.high
        /\ y.vint = IF x.vint = "none" THEN "pending" ELSE x.vint
    BY <2>1, <2>2, Zenon DEF VirtualPin
  <2>4. /\ y.rte \in Rte /\ y.rte.mask = x.rte.mask /\ y.rte.level = x.rte.level
        /\ y.rte.alo = x.rte.alo /\ y.rte.remote_irr = x.rte.level
    BY <2>3, <2>2, Zenon DEF Rte
  <2>5. y \in VirtualPin /\ y.vint # "none"
    BY <2>1, <2>2, <2>3, <2>4, Zenon DEF VirtualPin, Vint
  <2>. QED  BY <1>2, <2>3, <2>4, <2>5, Zenon DEF Follows
<1>. QED  BY <1>1, <1>2, Zenon

LEMMA Staying ==
    ASSUME NEW x \in VirtualPin
    PROVE  Follows(x, x)
BY Zenon DEF Follows

LEMMA Following ==
    ASSUME NEW x \in VirtualPin, NEW y, NEW z, Follows(x, y), Follows(y, z)
    PROVE  Follows(x, z)
BY Zenon DEF Follows

(* vioapic_set_pinstate requests the vector of a pin that becomes asserted.*)
LEMMA Setting ==
    ASSUME NEW x \in VirtualPin, NEW high \in BOOLEAN, NEW y, y = vioapic_set_pinstate(x, high)
    PROVE  /\ Follows(x, y) /\ y.high = high
           /\ x.high # high /\ high # x.rte.alo /\ ~x.rte.mask /\ x.rte.level => y.rte.remote_irr
<1>. DEFINE z == [x EXCEPT !.high = high]
<1>1. /\ z \in VirtualPin /\ z.rte = x.rte /\ z.vint = x.vint /\ z.high = high
  BY Zenon DEF VirtualPin
<1>2. y = IF high # x.high /\ high # x.rte.alo THEN vioapic_generate_intr(z) ELSE z
  BY Zenon DEF vioapic_set_pinstate
<1>. HIDE DEF z
<1>3. Follows(x, z)
  BY <1>1, Zenon DEF Follows
<1>4. CASE high # x.high /\ high # x.rte.alo
  <2>1. y = vioapic_generate_intr(z)
    BY <1>2, <1>4, Zenon
  <2>2. /\ Follows(z, y) /\ y.high = z.high
        /\ ~z.rte.mask /\ z.rte.level => y.rte.remote_irr
    BY <2>1, <1>1, Generating, Zenon
  <2>. QED  BY <1>1, <1>3, <2>2, Following, Zenon
<1>5. CASE ~(high # x.high /\ high # x.rte.alo)
  BY <1>1, <1>2, <1>3, <1>5, Zenon
<1>. QED  BY <1>4, <1>5, Zenon

LEMMA Pulsing ==
    ASSUME NEW x \in VirtualPin, NEW high \in BOOLEAN, NEW y, y = Pulse(x, high)
    PROVE  /\ Follows(x, y) /\ y.high = ~high
           /\ x.high # high /\ high # x.rte.alo /\ ~x.rte.mask /\ x.rte.level => y.rte.remote_irr
<1>. DEFINE z == vioapic_set_pinstate(x, high)
<1>1. /\ Follows(x, z) /\ z.high = high
      /\ x.high # high /\ high # x.rte.alo /\ ~x.rte.mask /\ x.rte.level => z.rte.remote_irr
  BY Setting, Zenon
<1>2. z \in VirtualPin
  BY <1>1, Zenon DEF Follows
<1>7. y = vioapic_set_pinstate(z, ~high)
  BY Zenon DEF Pulse
<1>8. (~high) \in BOOLEAN
  OBVIOUS
<1>. HIDE DEF z
<1>3. Follows(z, y) /\ y.high = ~high
  BY <1>2, <1>7, <1>8, Setting, Zenon
<1>4. Follows(x, y)
  BY <1>1, <1>3, Following, Zenon
<1>5. z.rte.remote_irr /\ z.rte.level => y.rte.remote_irr
  BY <1>3, Zenon DEF Follows
<1>6. z.rte.level = x.rte.level
  BY <1>1, Zenon DEF Follows
<1>. QED  BY <1>1, <1>3, <1>4, <1>5, <1>6, Zenon

LEMMA Polarity ==
    ASSUME NEW x \in VirtualPin, NEW p \in BOOLEAN, NEW y, y = follow_polarity(x, p)
    PROVE  Follows(x, y)
<1>1. Follows(x, vioapic_set_pinstate(x, TRUE)) /\ Follows(x, vioapic_set_pinstate(x, FALSE))
  BY Setting, Zenon
<1>. QED  BY <1>1, Staying, Zenon DEF follow_polarity

-----------------------------------------------------------------------------
(* The steps that leave the virtual pins and the owner alone.              *)
LEMMA Waiting ==
    ASSUME PtIInv, PtTyped', UNCHANGED <<vioVars, entry>>,
           pin'.mask => pin.mask \/ Coming',
           entry # NULL => (Coming \/ soft # "idle" => Coming' \/ soft' # "idle"),
           soft' = "edge" /\ Coming => Coming',
           soft' = "edge" => soft = "edge" \/ Coming' \/ (entry # NULL /\ ~rte[Owner].level)
    PROVE  PtIInv'
<1>1. IrrInv' /\ OwnerInv'
  BY Zenon DEF PtIInv, IrrInv, OwnerInv, vioVars, Owner
<1>2. PinInv'
  <2>. SUFFICES ASSUME NEW v \in VMs, Listens(v)'
                PROVE  (/\ Asserted(v) => rte[v].remote_irr
                        /\ pin.mask => \/ Coming \/ soft # "idle"
                                       \/ rte[v].remote_irr /\ (vint[v] = "acked" => Asserted(v))
                        /\ pin.mask /\ soft = "edge" => Coming)'
    BY Zenon DEF PinInv, PinOK
  <2>1. Listens(v) /\ (Asserted(v)' <=> Asserted(v)) /\ rte' = rte /\ vint' = vint
    BY Zenon DEF Listens, Asserted, vioVars, Owner
  <2>2. /\ Asserted(v) => rte[v].remote_irr
        /\ pin.mask => \/ Coming \/ soft # "idle"
                       \/ rte[v].remote_irr /\ (vint[v] = "acked" => Asserted(v))
        /\ pin.mask /\ soft = "edge" => Coming
    BY <2>1, Zenon DEF PtIInv, PinInv, PinOK
  <2>3. Owner = v /\ rte[v].level /\ entry # NULL
    BY <2>1, PtIntxAssumption, Zenon DEF Listens, Owner
  <2>. QED  BY <2>1, <2>2, <2>3, Zenon
<1>. QED  BY <1>1, <1>2, Zenon DEF PtIInv

LEMMA Idle_pt == PtIInv /\ UNCHANGED ptintx_vars => PtIInv'
<1>. SUFFICES ASSUME PtIInv, UNCHANGED ptintx_vars
              PROVE  PtIInv'
  OBVIOUS
<1>1. PtTyped'
  BY DEF PtIInv, PtTyped, ptintx_vars, devVars, ptVars, vioVars
<1>2. /\ UNCHANGED <<vioVars, entry, pin, soft, rte>> /\ (Coming' <=> Coming)
  BY Zenon DEF ptintx_vars, devVars, ptVars, vioVars, Coming
<1>. QED  BY <1>1, <1>2, Waiting, Zenon

LEMMA Step_device_asserts == PtIInv /\ device_asserts => PtIInv'
<1>. SUFFICES ASSUME PtIInv, device_asserts
              PROVE  PtIInv'
  OBVIOUS
<1>1. /\ pin' \in [mask : BOOLEAN, level : BOOLEAN, irr : BOOLEAN] /\ pin'.mask = pin.mask
  BY Zenon DEF PtIInv, PtTyped, device_asserts
<1>2. PtTyped'
  BY <1>1, Zenon DEF PtIInv, PtTyped, device_asserts, ptVars, vioVars
<1>3. /\ UNCHANGED <<vioVars, entry, soft, rte>> /\ (Coming' <=> Coming)
  BY Zenon DEF device_asserts, ptVars, vioVars, Coming
<1>. QED  BY <1>1, <1>2, <1>3, Waiting, Zenon

LEMMA Step_handle_irq == PtIInv /\ handle_irq => PtIInv'
<1>. SUFFICES ASSUME PtIInv, handle_irq
              PROVE  PtIInv'
  OBVIOUS
<1>1. pin' \in [mask : BOOLEAN, level : BOOLEAN, irr : BOOLEAN]
  BY Zenon DEF PtIInv, PtTyped, handle_irq
<1>0. timer \in [started : BOOLEAN, expired : BOOLEAN] /\ queued \in BOOLEAN
  BY Zenon DEF PtIInv, PtTyped
<1>2. /\ timer' \in [started : BOOLEAN, expired : BOOLEAN] /\ timer'.started = timer.started
      /\ queued' \in BOOLEAN /\ (queued => queued') /\ (queued' \/ timer.started)
  BY <1>0, Zenon DEF handle_irq
<1>3. PtTyped'
  BY <1>1, <1>2, Zenon DEF PtIInv, PtTyped, handle_irq, vioVars
<1>4. /\ UNCHANGED <<vioVars, entry, soft, rte>> /\ Coming'
  BY <1>2, Zenon DEF handle_irq, vioVars, Coming
<1>. QED  BY <1>3, <1>4, Waiting, Zenon

LEMMA Step_Delay == PtIInv /\ Delay => PtIInv'
<1>. SUFFICES ASSUME PtIInv, Delay
              PROVE  PtIInv'
  OBVIOUS
<1>1. /\ timer' \in [started : BOOLEAN, expired : BOOLEAN]
      /\ (timer'.started = timer.started /\ queued' = queued) \/ queued' = TRUE
  BY Zenon DEF PtIInv, PtTyped, Delay, delay_passes, ptirq_intr_delay_callback
<1>2. UNCHANGED <<line, pin, entry, delta, soft, rte, pin_state, vint, writing, vioVars>>
  BY Zenon DEF Delay, delay_passes, ptirq_intr_delay_callback, devVars, vioVars
<1>3. PtTyped'
  BY <1>1, <1>2, Zenon DEF PtIInv, PtTyped
<1>4. Coming => Coming'
  BY <1>1, Zenon DEF Coming
<1>. QED  BY <1>2, <1>3, <1>4, Waiting, Zenon

LEMMA Step_dequeue == PtIInv /\ ptirq_dequeue_softirq => PtIInv'
<1>. SUFFICES ASSUME PtIInv, ptirq_dequeue_softirq
              PROVE  PtIInv'
  OBVIOUS
<1>0. timer \in [started : BOOLEAN, expired : BOOLEAN]
  BY Zenon DEF PtIInv, PtTyped
<1>1. /\ timer' \in [started : BOOLEAN, expired : BOOLEAN]
      /\ soft' = "check" \/ (soft' = soft /\ timer'.started)
      /\ soft = "idle"
  <2>1. CASE Owner = SOS \/ timer.expired
    <3>1. timer' = timer /\ soft' = "check" /\ soft = "idle"
      BY <2>1, Zenon DEF ptirq_dequeue_softirq
    <3>. QED  BY <1>0, <3>1, Zenon
  <2>2. CASE ~(Owner = SOS \/ timer.expired)
    <3>1. timer' = [timer EXCEPT !.started = TRUE] /\ soft' = soft /\ soft = "idle"
      BY <2>2, Zenon DEF ptirq_dequeue_softirq
    <3>. QED  BY <1>0, <3>1, Zenon
  <2>. QED  BY <2>1, <2>2, Zenon
<1>2. /\ UNCHANGED <<line, pin, entry, delta, rte, pin_state, vint, writing, vioVars>>
      /\ queued' = FALSE
  BY Zenon DEF ptirq_dequeue_softirq, devVars, vioVars
<1>3. PtTyped'
  BY <1>1, <1>2, Zenon DEF PtIInv, PtTyped
<1>4. Coming' \/ soft' = "check"
  BY <1>1, Zenon DEF Coming
<1>5. "check" # "idle" /\ "check" # "edge" /\ "idle" # "edge"
  OBVIOUS
<1>. QED  BY <1>1, <1>2, <1>3, <1>4, <1>5, Waiting, Zenon

LEMMA Step_softirq == PtIInv /\ ptirq_softirq => PtIInv'
<1>. SUFFICES ASSUME PtIInv, ptirq_softirq
              PROVE  PtIInv'
  OBVIOUS
<1>1. /\ UNCHANGED <<line, pin, entry, delta, timer, queued, rte, pin_state, vint, writing, vioVars>>
      /\ soft = "check" /\ (entry # NULL => soft' = "handle")
      /\ soft' \in {"idle", "handle"}
  BY Zenon DEF ptirq_softirq, devVars, vioVars
<1>2. PtTyped'
  BY <1>1 DEF PtIInv, PtTyped
<1>3. Coming' <=> Coming
  BY <1>1, Zenon DEF Coming
<1>4. "check" # "idle" /\ "handle" # "idle" /\ "handle" # "edge" /\ "idle" # "edge"
  OBVIOUS
<1>. QED  BY <1>1, <1>2, <1>3, <1>4, Waiting, Zenon

LEMMA Step_reads == PtIInv /\ ptirq_handle_intx_reads => PtIInv'
<1>. SUFFICES ASSUME PtIInv, ptirq_handle_intx_reads
              PROVE  PtIInv'
  OBVIOUS
<1>1. /\ UNCHANGED <<line, pin, entry, delta, timer, queued, rte, pin_state, vint, writing, vioVars>>
      /\ entry # NULL => soft' = "level" \/ (soft' = "edge" /\ ~rte[Owner].level)
      /\ entry = NULL => soft' = "idle"
  BY Zenon DEF ptirq_handle_intx_reads, devVars, vioVars
<1>2. PtTyped'
  BY <1>1 DEF PtIInv, PtTyped
<1>3. Coming' <=> Coming
  BY <1>1, Zenon DEF Coming
<1>4. "level" # "idle" /\ "edge" # "idle" /\ "level" # "edge" /\ "idle" # "edge"
  OBVIOUS
<1>. QED  BY <1>1, <1>2, <1>3, <1>4, Waiting, Zenon

LEMMA Step_handle_intx == PtIInv /\ ptirq_handle_intx => PtIInv'
<1>. SUFFICES ASSUME PtIInv, ptirq_handle_intx
              PROVE  PtIInv'
  OBVIOUS
<1>1. /\ UNCHANGED <<line, pin, entry, delta, timer, queued, writing>>
      /\ soft \in {"edge", "level"} /\ soft' = "idle" /\ (Coming' <=> Coming) /\ Owner' = Owner
  BY Zenon DEF ptirq_handle_intx, devVars, vioVars, Coming, Owner
<1>2. CASE entry = NULL
  <2>1. UNCHANGED vioVars
    BY <1>2, Zenon DEF ptirq_handle_intx
  <2>2. PtTyped'
    BY <1>1, <2>1 DEF PtIInv, PtTyped, vioVars
  <2>3. "idle" # "edge"
    OBVIOUS
  <2>. QED  BY <1>1, <1>2, <2>1, <2>2, <2>3, Waiting, Zenon
<1>3. CASE entry # NULL
  <2>1. PICK v : v = Owner
    OBVIOUS
  <2>2. v \in VMs /\ entry.polarity \in BOOLEAN /\ (~entry.polarity) \in BOOLEAN
    BY <1>3, <2>1, Zenon DEF PtIInv, PtTyped, Owner
  <2>3. PICK x : x = Vpin(v)
    OBVIOUS
  <2>4. PICK y : y = IF soft = "level" THEN vioapic_set_pinstate(x, ~entry.polarity)
                     ELSE Pulse(x, ~entry.polarity)
    OBVIOUS
  <2>5. SetVpin(v, y)
    BY <1>3, <2>1, <2>3, <2>4, Zenon DEF ptirq_handle_intx
  <2>6. x \in VirtualPin /\ x.rte = rte[v] /\ x.high = pin_state[v] /\ x.vint = vint[v]
    BY <2>2, <2>3, Reading, Zenon DEF PtIInv
  <2>7. /\ Follows(x, y)
        /\ (/\ x.high # (~entry.polarity) /\ (~entry.polarity) # x.rte.alo
            /\ ~x.rte.mask /\ x.rte.level) => y.rte.remote_irr
        /\ soft = "level" => y.high = ~entry.polarity
        /\ soft # "level" => y.high = ~~entry.polarity
    BY <2>2, <2>4, <2>6, Setting, Pulsing, Zenon
  <2>8. y \in VirtualPin
    BY <2>7, Zenon DEF Follows
  <2>9. /\ rte' \in [VMs -> Rte] /\ pin_state' \in [VMs -> BOOLEAN] /\ vint' \in [VMs -> Vint]
        /\ rte'[v] = y.rte /\ pin_state'[v] = y.high /\ vint'[v] = y.vint
        /\ \A w \in VMs : w # v => /\ rte'[w] = rte[w] /\ pin_state'[w] = pin_state[w]
                                   /\ vint'[w] = vint[w]
    BY <2>2, <2>5, <2>8, Writing, Zenon DEF PtIInv
  <2>10. PtTyped'
    BY <1>1, <2>9 DEF PtIInv, PtTyped
  <2>11. IrrInv'
    <3>. SUFFICES ASSUME NEW w \in VMs
                  PROVE  rte'[w].remote_irr => vint'[w] # "none"
      BY Zenon DEF IrrInv
    <3>1. rte[w].remote_irr => vint[w] # "none"
      BY Zenon DEF PtIInv, IrrInv
    <3>. QED  BY <3>1, <2>6, <2>7, <2>9, Zenon DEF Follows
  <2>12. OwnerInv'
    <3>. SUFFICES ASSUME NEW w \in VMs, Owner' = w, ~rte'[w].mask
                  PROVE  rte'[w].alo = entry'.polarity /\ writing'[w] # "plain"
      BY Zenon DEF OwnerInv
    <3>1. w = v /\ rte'[w].mask = rte[w].mask /\ rte'[w].alo = rte[w].alo
      BY <1>1, <2>1, <2>6, <2>7, <2>9, Zenon DEF Follows
    <3>. QED  BY <1>1, <3>1, Zenon DEF PtIInv, OwnerInv
  <2>13. PinInv'
    <3>. SUFFICES ASSUME NEW w \in VMs, Listens(w)'
                  PROVE  (/\ Asserted(w) => rte[w].remote_irr
                          /\ pin.mask => \/ Coming \/ soft # "idle"
                                         \/ rte[w].remote_irr /\ (vint[w] = "acked" => Asserted(w))
                          /\ pin.mask /\ soft = "edge" => Coming)'
      BY Zenon DEF PinInv, PinOK
    <3>1. w = v /\ Owner = v
      BY <1>1, <2>1, Zenon DEF Listens
    <3>2. /\ rte'[v].mask = rte[v].mask /\ rte'[v].level = rte[v].level /\ rte'[v].alo = rte[v].alo
          /\ rte[v].remote_irr /\ rte[v].level => rte'[v].remote_irr
      BY <2>6, <2>7, <2>9, Zenon DEF Follows
    <3>3. Listens(v)
      BY <1>1, <3>1, <3>2, Zenon DEF Listens
    <3>4. /\ Asserted(v) => rte[v].remote_irr
          /\ pin.mask /\ soft = "edge" => Coming
      BY <3>3, <2>2, Zenon DEF PtIInv, PinInv, PinOK
    <3>5. rte[v].alo = entry.polarity /\ ~rte[v].mask /\ rte[v].level
      BY <3>3, <2>2, Zenon DEF PtIInv, OwnerInv, Listens
    <3>6. rte'[v].remote_irr
      <4>1. CASE Asserted(v)
        BY <4>1, <3>2, <3>4, <3>5, Zenon
      <4>2. CASE ~Asserted(v)
        <5>1. pin_state[v] = entry.polarity
          BY <4>2, <3>5, Zenon DEF Asserted
        <5>2. entry.polarity # (~entry.polarity)
          BY <2>2, Zenon
        <5>. QED  BY <5>1, <5>2, <3>5, <2>6, <2>7, <2>9, Zenon
      <4>. QED  BY <4>1, <4>2, Zenon
    <3>7. soft = "level" => Asserted(v)'
      <4>1. soft = "level" => pin_state'[v] = (~entry.polarity) /\ rte'[v].alo = entry.polarity
        BY <2>7, <2>9, <3>2, <3>5, Zenon
      <4>. QED  BY <4>1, <2>2, Zenon DEF Asserted
    <3>8. pin' = pin /\ (soft = "edge" \/ soft = "level") /\ soft' # "edge"
      BY <1>1, Zenon
    <3>. QED  BY <1>1, <3>1, <3>4, <3>6, <3>7, <3>8, Zenon
  <2>. QED  BY <2>10, <2>11, <2>12, <2>13, Zenon DEF PtIInv
<1>. QED  BY <1>2, <1>3, Zenon

-----------------------------------------------------------------------------
(* The steps of one VM.                                                    *)
LEMMA OnePin ==
    ASSUME PtIInv, PtTyped', NEW v \in VMs,
           \A w \in VMs : w # v => /\ rte'[w] = rte[w] /\ pin_state'[w] = pin_state[w]
                                   /\ vint'[w] = vint[w] /\ writing'[w] = writing[w],
           \A w \in VMs : w # v /\ Owner' = w => entry' = entry /\ (pin'.mask => pin.mask),
           UNCHANGED soft, Coming' <=> Coming,
           rte'[v].remote_irr => vint'[v] # "none",
           Owner' = v /\ ~rte'[v].mask => rte'[v].alo = entry'.polarity /\ writing'[v] # "plain",
           PinOK(v)'
    PROVE  PtIInv'
<1>1. IrrInv'
  BY Zenon DEF PtIInv, IrrInv
<1>2. \A w \in VMs : w # v /\ Owner' = w => Owner = w
  BY Zenon DEF Owner
<1>3. OwnerInv'
  BY <1>2, Zenon DEF PtIInv, OwnerInv
<1>4. PinInv'
  <2>. SUFFICES ASSUME NEW w \in VMs, w # v
                PROVE  PinOK(w)'
    BY Zenon DEF PinInv
  <2>1. Listens(w)' => Listens(w) /\ (pin'.mask => pin.mask)
    BY <1>2, Zenon DEF Listens
  <2>2. Asserted(w)' <=> Asserted(w)
    BY Zenon DEF Asserted
  <2>3. PinOK(w)
    BY Zenon DEF PtIInv, PinInv
  <2>. QED  BY <2>1, <2>2, <2>3, Zenon DEF PinOK
<1>. QED  BY <1>1, <1>3, <1>4, Zenon DEF PtIInv

LEMMA Step_serves ==
    ASSUME PtIInv, NEW v \in VMs, guest_serves(v)
    PROVE  PtIInv'
<1>1. /\ UNCHANGED <<pin, entry, delta, timer, queued, soft, rte, pin_state, writing>>
      /\ line' \in BOOLEAN /\ vint' = [vint EXCEPT ![v] = "serving"] /\ vint[v] = "pending"
  BY Zenon DEF guest_serves, ptVars
<1>2. /\ vint' \in [VMs -> Vint] /\ vint'[v] = "serving"
      /\ \A w \in VMs : w # v => vint'[w] = vint[w]
  BY <1>1, Zenon DEF PtIInv, PtTyped, Vint
<1>3. PtTyped'
  BY <1>1, <1>2 DEF PtIInv, PtTyped
<1>4. (Coming' <=> Coming) /\ Owner' = Owner /\ (Listens(v)' <=> Listens(v))
      /\ (Asserted(v)' <=> Asserted(v))
  BY <1>1, Zenon DEF Coming, Owner, Listens, Asserted
<1>5. PinOK(v)
  BY Zenon DEF PtIInv, PinInv
<1>6. "serving" # "acked" /\ "serving" # "none" /\ "pending" # "acked"
  OBVIOUS
<1>7. PinOK(v)'
  BY <1>1, <1>2, <1>4, <1>5, <1>6, Zenon DEF PinOK
<1>8. Owner' = v /\ ~rte'[v].mask => rte'[v].alo = entry'.polarity /\ writing'[v] # "plain"
  BY <1>1, <1>4, Zenon DEF PtIInv, OwnerInv
<1>. QED  BY <1>1, <1>2, <1>3, <1>4, <1>6, <1>7, <1>8, OnePin, Zenon

LEMMA Step_eoi ==
    ASSUME PtIInv, NEW v \in VMs, vioapic_process_eoi(v)
    PROVE  PtIInv'
<1>1. /\ UNCHANGED <<line, entry, delta, timer, queued, soft, writing>>
      /\ vint[v] = "serving" /\ Owner' = Owner /\ (Coming' <=> Coming)
  BY Zenon DEF vioapic_process_eoi, ptVars, Coming, Owner
<1>2. CASE rte[v].remote_irr /\ Owner = v
  <2>1. ptirq_intx_ack(v) /\ entry # NULL
    BY <1>2, PtIntxAssumption, Zenon DEF vioapic_process_eoi, Owner
  <2>2. entry.polarity \in BOOLEAN
    BY <2>1, Zenon DEF PtIInv, PtTyped
  <2>3. PICK x : x = Vpin(v)
    OBVIOUS
  <2>4. PICK z : z = vioapic_set_pinstate(x, entry.polarity)
    OBVIOUS
  <2>5. PICK y : y = [z EXCEPT !.vint = "acked"]
    BY Zenon
  <2>6. SetVpin(v, y) /\ pin' = [pin EXCEPT !.mask = FALSE]
    BY <2>1, <2>3, <2>4, <2>5, Zenon DEF ptirq_intx_ack
  <2>7. x \in VirtualPin /\ x.rte = rte[v] /\ x.high = pin_state[v] /\ x.vint = vint[v]
    BY <2>3, Reading, Zenon DEF PtIInv
  <2>8. Follows(x, z) /\ z.high = entry.polarity
    BY <2>2, <2>4, <2>7, Setting, Zenon
  <2>9. z \in VirtualPin
    BY <2>8, Zenon DEF Follows
  <2>10. y \in VirtualPin /\ y.rte = z.rte /\ y.high = z.high /\ y.vint = "acked"
    BY <2>5, <2>9, Zenon DEF VirtualPin, Vint
  <2>11. /\ rte' \in [VMs -> Rte] /\ pin_state' \in [VMs -> BOOLEAN] /\ vint' \in [VMs -> Vint]
         /\ rte'[v] = y.rte /\ pin_state'[v] = y.high /\ vint'[v] = y.vint
         /\ \A w \in VMs : w # v => /\ rte'[w] = rte[w] /\ pin_state'[w] = pin_state[w]
                                    /\ vint'[w] = vint[w]
    BY <2>6, <2>10, Writing, Zenon DEF PtIInv
  <2>12. pin' \in [mask : BOOLEAN, level : BOOLEAN, irr : BOOLEAN] /\ pin'.mask = FALSE
    BY <2>6, Zenon DEF PtIInv, PtTyped
  <2>13. PtTyped'
    BY <1>1, <2>11, <2>12, Zenon DEF PtIInv, PtTyped
  <2>14. rte'[v].mask = rte[v].mask /\ rte'[v].alo = rte[v].alo
    BY <2>7, <2>8, <2>10, <2>11, Zenon DEF Follows
  <2>15. Owner' = v /\ ~rte'[v].mask => rte'[v].alo = entry'.polarity /\ writing'[v] # "plain"
    BY <1>1, <2>14, Zenon DEF PtIInv, OwnerInv
  <2>16. PinOK(v)'
    BY <1>1, <2>8, <2>10, <2>11, <2>12, <2>15, Zenon DEF PinOK, Listens, Asserted
  <2>17. vint'[v] # "none"
    BY <2>10, <2>11, Zenon
  <2>. QED  BY <1>1, <1>2, <2>11, <2>13, <2>15, <2>16, <2>17, OnePin, Zenon
<1>3. CASE ~(rte[v].remote_irr /\ Owner = v)
  <2>1. /\ UNCHANGED <<pin, rte, pin_state>> /\ vint' = [vint EXCEPT ![v] = "acked"]
    BY <1>3, Zenon DEF vioapic_process_eoi
  <2>2. /\ vint' \in [VMs -> Vint] /\ vint'[v] = "acked"
        /\ \A w \in VMs : w # v => vint'[w] = vint[w]
    BY <2>1, Zenon DEF PtIInv, PtTyped, Vint
  <2>3. PtTyped'
    BY <1>1, <2>1, <2>2 DEF PtIInv, PtTyped
  <2>4. (Listens(v)' <=> Listens(v)) /\ (Asserted(v)' <=> Asserted(v))
    BY <1>1, <2>1, Zenon DEF Listens, Asserted
  <2>5. PinOK(v)
    BY Zenon DEF PtIInv, PinInv
  <2>6. Listens(v) => ~rte[v].remote_irr
    BY <1>3, Zenon DEF Listens
  <2>7. PinOK(v)'
    BY <1>1, <2>1, <2>4, <2>5, <2>6, Zenon DEF PinOK
  <2>8. Owner' = v /\ ~rte'[v].mask => rte'[v].alo = entry'.polarity /\ writing'[v] # "plain"
    BY <1>1, <2>1, Zenon DEF PtIInv, OwnerInv
  <2>9. vint'[v] # "none"
    BY <2>2, Zenon
  <2>. QED  BY <1>1, <2>1, <2>2, <2>3, <2>7, <2>8, <2>9, OnePin, Zenon
<1>. QED  BY <1>2, <1>3, Zenon

LEMMA Step_eoi_done ==
    ASSUME PtIInv, NEW v \in VMs, eoi_done(v)
    PROVE  PtIInv'
<1>1. /\ UNCHANGED <<line, pin, entry, delta, timer, queued, soft, writing>>
      /\ vint[v] = "acked" /\ Owner' = Owner /\ (Coming' <=> Coming)
  BY Zenon DEF eoi_done, devVars, ptVars, Coming, Owner
<1>2. PICK u : u = Vpin(v)
  OBVIOUS
<1>3. PICK x : x = [u EXCEPT !.rte.remote_irr = FALSE, !.vint = "none"]
  OBVIOUS
<1>4. PICK y : y = IF rte[v].remote_irr /\ vioapic_need_intr(x) THEN vioapic_generate_intr(x) ELSE x
  OBVIOUS
<1>5. SetVpin(v, y)
  BY <1>2, <1>3, <1>4, Zenon DEF eoi_done
<1>6. u \in VirtualPin /\ u.rte = rte[v] /\ u.high = pin_state[v] /\ u.vint = vint[v]
  BY <1>2, Reading, Zenon DEF PtIInv
<1>7. /\ x.rte = [u.rte EXCEPT !.remote_irr = FALSE] /\ x.high = u.high /\ x.vint = "none"
  BY <1>3, <1>6, Zenon DEF VirtualPin
<1>8. /\ x.rte \in Rte /\ x.rte.mask = u.rte.mask /\ x.rte.level = u.rte.level
      /\ x.rte.alo = u.rte.alo /\ x.rte.remote_irr = FALSE
  <2>1. u.rte \in Rte
    BY <1>6, Zenon DEF VirtualPin
  <2>. QED  BY <1>7, <2>1, Zenon DEF Rte
<1>9. x \in VirtualPin
  BY <1>3, <1>6, <1>7, <1>8, Zenon DEF VirtualPin, Vint
<1>10. /\ Follows(x, y) /\ y.high = x.high
       /\ (/\ rte[v].remote_irr /\ vioapic_need_intr(x)
           /\ ~x.rte.mask /\ x.rte.level) => y.rte.remote_irr
       /\ ~(rte[v].remote_irr /\ vioapic_need_intr(x)) => y = x
       /\ y.vint # "acked"
  <2>1. y = vioapic_generate_intr(x) => y.vint # "acked"
    BY <1>7, <1>9, Zenon DEF vioapic_generate_intr, VirtualPin
  <2>. QED  BY <1>4, <1>7, <1>9, <2>1, Generating, Staying, Zenon
<1>11. y \in VirtualPin
  BY <1>10, Zenon DEF Follows
<1>12. /\ rte' \in [VMs -> Rte] /\ pin_state' \in [VMs -> BOOLEAN] /\ vint' \in [VMs -> Vint]
       /\ rte'[v] = y.rte /\ pin_state'[v] = y.high /\ vint'[v] = y.vint
       /\ \A w \in VMs : w # v => /\ rte'[w] = rte[w] /\ pin_state'[w] = pin_state[w]
                                  /\ vint'[w] = vint[w]
  BY <1>5, <1>11, Writing, Zenon DEF PtIInv
<1>13. PtTyped'
  BY <1>1, <1>12 DEF PtIInv, PtTyped
<1>14. /\ rte'[v].mask = rte[v].mask /\ rte'[v].level = rte[v].level /\ rte'[v].alo = rte[v].alo
       /\ rte'[v].remote_irr => vint'[v] # "none"
  BY <1>6, <1>7, <1>8, <1>10, <1>12, Zenon DEF Follows
<1>15. Owner' = v /\ ~rte'[v].mask => rte'[v].alo = entry'.polarity /\ writing'[v] # "plain"
  BY <1>1, <1>14, Zenon DEF PtIInv, OwnerInv
<1>16. /\ (Listens(v)' <=> Listens(v)) /\ (Asserted(v)' <=> Asserted(v))
       /\ (vioapic_need_intr(x) <=> Asserted(v))
  <2>1. Listens(v)' <=> Listens(v)
    BY <1>1, <1>14, Zenon DEF Listens
  <2>2. pin_state'[v] = pin_state[v] /\ x.high = pin_state[v] /\ x.rte.alo = rte[v].alo
    BY <1>6, <1>7, <1>8, <1>10, <1>12, Zenon
  <2>. QED  BY <1>14, <2>1, <2>2, Zenon DEF Asserted, vioapic_need_intr
<1>17. PinOK(v)'
  <2>1. PinOK(v)
    BY Zenon DEF PtIInv, PinInv
  <2>2. Listens(v) /\ rte[v].remote_irr /\ Asserted(v) => rte'[v].remote_irr
    BY <1>6, <1>8, <1>10, <1>12, <1>16, Zenon DEF Listens
  <2>3. vint'[v] # "acked"
    BY <1>10, <1>12, Zenon
  <2>. QED  BY <1>1, <1>16, <2>1, <2>2, <2>3, Zenon DEF PinOK
<1>. QED  BY <1>1, <1>12, <1>13, <1>14, <1>15, <1>17, OnePin, Zenon

LEMMA Step_write ==
    ASSUME PtIInv, NEW v \in VMs, vioapic_indirect_write(v)
    PROVE  PtIInv'
<1>1. /\ UNCHANGED <<line, delta, timer, queued, soft>> /\ (Coming' <=> Coming) /\ writing[v] = "no"
  BY Zenon DEF vioapic_indirect_write, Coming
<1>2. PICK m, l, a \in BOOLEAN :
         LET new == [mask |-> m, level |-> l, alo |-> a, remote_irr |-> rte[v].remote_irr /\ l]
             x == [Vpin(v) EXCEPT !.rte = new]
             p == IF entry = NULL THEN FALSE ELSE entry.polarity
         IN IF Remaps(v, new)
              THEN /\ SetVpin(v, follow_polarity(x, p))
                   /\ entry' = [vm |-> v, polarity |-> a]
                   /\ pin' = [pin EXCEPT !.mask = TRUE, !.level = l]
                   /\ writing' = [writing EXCEPT ![v] = "remap"]
              ELSE /\ SetVpin(v, x) /\ writing' = [writing EXCEPT ![v] = "plain"]
                   /\ UNCHANGED <<entry, pin>>
  BY Zenon DEF vioapic_indirect_write
<1>3. PICK new : new = [mask |-> m, level |-> l, alo |-> a, remote_irr |-> rte[v].remote_irr /\ l]
  BY Zenon
<1>4. PICK u : u = Vpin(v)
  OBVIOUS
<1>5. PICK x : x = [u EXCEPT !.rte = new]
  BY Zenon
<1>6. PICK p : p = IF entry = NULL THEN FALSE ELSE entry.polarity
  BY Zenon
<1>7. IF Remaps(v, new)
        THEN /\ SetVpin(v, follow_polarity(x, p))
             /\ entry' = [vm |-> v, polarity |-> a]
             /\ pin' = [pin EXCEPT !.mask = TRUE, !.level = l]
             /\ writing' = [writing EXCEPT ![v] = "remap"]
        ELSE /\ SetVpin(v, x) /\ writing' = [writing EXCEPT ![v] = "plain"]
             /\ UNCHANGED <<entry, pin>>
  BY <1>2, <1>3, <1>4, <1>5, <1>6, Zenon
<1>8. u \in VirtualPin /\ u.rte = rte[v] /\ u.high = pin_state[v] /\ u.vint = vint[v]
  BY <1>4, Reading, Zenon DEF PtIInv
<1>9. /\ new \in Rte /\ new.mask = m /\ new.alo = a
      /\ new.remote_irr => rte[v].remote_irr
  BY <1>3, Zenon DEF Rte
<1>10. x \in VirtualPin /\ x.rte = new /\ x.vint = vint[v]
  BY <1>5, <1>8, <1>9, Zenon DEF VirtualPin
<1>11. p \in BOOLEAN
  BY <1>6, Zenon DEF PtIInv, PtTyped
<1>12. PICK y : y = IF Remaps(v, new) THEN follow_polarity(x, p) ELSE x
  OBVIOUS
<1>13. Follows(x, y)
  BY <1>10, <1>11, <1>12, Polarity, Staying, Zenon
<1>14. y \in VirtualPin /\ SetVpin(v, y)
  BY <1>7, <1>12, <1>13, Zenon DEF Follows
<1>15. /\ rte' \in [VMs -> Rte] /\ pin_state' \in [VMs -> BOOLEAN] /\ vint' \in [VMs -> Vint]
       /\ rte'[v] = y.rte /\ pin_state'[v] = y.high /\ vint'[v] = y.vint
       /\ \A w \in VMs : w # v => /\ rte'[w] = rte[w] /\ pin_state'[w] = pin_state[w]
                                  /\ vint'[w] = vint[w]
  BY <1>14, Writing, Zenon DEF PtIInv
<1>16. PICK o : o \in {"remap", "plain"} /\ (o = "remap" <=> Remaps(v, new)) /\ writing' = [writing EXCEPT ![v] = o]
  <2>1. CASE Remaps(v, new)
    BY <1>7, <2>1, Zenon
  <2>2. CASE ~Remaps(v, new)
    BY <1>7, <2>2, Zenon
  <2>. QED  BY <2>1, <2>2, Zenon
<1>17. /\ writing' \in [VMs -> {"no", "remap", "plain"}] /\ writing'[v] = o
       /\ \A w \in VMs : w # v => writing'[w] = writing[w]
  BY <1>16, Zenon DEF PtIInv, PtTyped
<1>18. /\ entry' \in [vm : VMs, polarity : BOOLEAN] \union {NULL}
       /\ pin' \in [mask : BOOLEAN, level : BOOLEAN, irr : BOOLEAN]
  <2>1. CASE Remaps(v, new)
    <3>1. pin \in [mask : BOOLEAN, level : BOOLEAN, irr : BOOLEAN]
      BY Zenon DEF PtIInv, PtTyped
    <3>2. /\ entry' = [vm |-> v, polarity |-> a]
          /\ pin' = [pin EXCEPT !.mask = TRUE, !.level = l]
      BY <1>7, <2>1, Zenon
    <3>. QED  BY <3>1, <3>2, Zenon
  <2>2. CASE ~Remaps(v, new)
    BY <1>7, <2>2, Zenon DEF PtIInv, PtTyped
  <2>. QED  BY <2>1, <2>2, Zenon
<1>19. PtTyped'
  BY <1>1, <1>15, <1>17, <1>18, Zenon DEF PtIInv, PtTyped
<1>20. rte'[v].mask = m /\ rte'[v].alo = a /\ (rte'[v].remote_irr => vint'[v] # "none")
  <2>1. new.remote_irr => vint[v] # "none"
    BY <1>9, Zenon DEF PtIInv, IrrInv
  <2>. QED  BY <1>9, <1>10, <1>13, <1>15, <2>1, Zenon DEF Follows
<1>21. Owner' = v /\ ~m => Remaps(v, new) /\ entry'.polarity = a
  <2>1. CASE Remaps(v, new)
    BY <1>7, <2>1
  <2>2. CASE ~Remaps(v, new)
    BY <1>7, <1>9, <2>2, Zenon DEF Remaps, Owner
  <2>. QED  BY <2>1, <2>2, Zenon
<1>22. Owner' = v /\ ~rte'[v].mask => rte'[v].alo = entry'.polarity /\ writing'[v] # "plain"
  <2>1. "remap" # "plain"
    OBVIOUS
  <2>. QED  BY <1>16, <1>17, <1>20, <1>21, <2>1, Zenon
<1>23. PinOK(v)'
  <2>1. writing'[v] # "no"
    BY <1>16, <1>17, Zenon
  <2>. QED  BY <2>1, Zenon DEF PinOK, Listens
<1>24. \A w \in VMs : w # v /\ Owner' = w => entry' = entry /\ (pin'.mask => pin.mask)
  <2>1. CASE Remaps(v, new)
    <3>1. Owner' = v \/ Owner' = NULL
      BY <1>7, <2>1 DEF Owner
    <3>. QED  BY <3>1, PtIntxAssumption, Zenon
  <2>2. CASE ~Remaps(v, new)
    BY <1>7, <2>2, Zenon
  <2>. QED  BY <2>1, <2>2, Zenon
<1>. QED  BY <1>1, <1>15, <1>17, <1>19, <1>20, <1>22, <1>23, <1>24, OnePin, Zenon

LEMMA Step_write_done ==
    ASSUME PtIInv, NEW v \in VMs, write_done(v)
    PROVE  PtIInv'
<1>1. /\ UNCHANGED <<line, entry, delta, timer, queued, soft>>
      /\ writing[v] # "no" /\ Owner' = Owner /\ (Coming' <=> Coming)
      /\ writing' = [writing EXCEPT ![v] = "no"]
      /\ pin' = [pin EXCEPT !.mask = @ /\ ~(writing[v] = "remap" /\ ~rte[v].mask)]
  BY Zenon DEF write_done, ptVars, Coming, Owner
<1>2. PICK x : x = Vpin(v)
  OBVIOUS
<1>3. PICK y : y = IF ~rte[v].mask /\ ~rte[v].remote_irr /\ vioapic_need_intr(x)
                     THEN vioapic_generate_intr(x) ELSE x
  BY Zenon
<1>4. SetVpin(v, y)
  BY <1>2, <1>3, Zenon DEF write_done
<1>5. x \in VirtualPin /\ x.rte = rte[v] /\ x.high = pin_state[v] /\ x.vint = vint[v]
  BY <1>2, Reading, Zenon DEF PtIInv
<1>6. /\ Follows(x, y) /\ y.high = x.high
      /\ (/\ ~rte[v].remote_irr /\ vioapic_need_intr(x)
          /\ ~x.rte.mask /\ x.rte.level) => y.rte.remote_irr
  BY <1>3, <1>5, Generating, Staying, Zenon
<1>7. y \in VirtualPin
  BY <1>6, Zenon DEF Follows
<1>8. /\ rte' \in [VMs -> Rte] /\ pin_state' \in [VMs -> BOOLEAN] /\ vint' \in [VMs -> Vint]
      /\ rte'[v] = y.rte /\ pin_state'[v] = y.high /\ vint'[v] = y.vint
      /\ \A w \in VMs : w # v => /\ rte'[w] = rte[w] /\ pin_state'[w] = pin_state[w]
                                 /\ vint'[w] = vint[w]
  BY <1>4, <1>7, Writing, Zenon DEF PtIInv
<1>9. /\ writing' \in [VMs -> {"no", "remap", "plain"}] /\ writing'[v] = "no"
      /\ \A w \in VMs : w # v => writing'[w] = writing[w]
      /\ writing[v] \in {"no", "remap", "plain"}
  BY <1>1, Zenon DEF PtIInv, PtTyped
<1>10. /\ pin' \in [mask : BOOLEAN, level : BOOLEAN, irr : BOOLEAN]
       /\ pin'.mask <=> pin.mask /\ ~(writing[v] = "remap" /\ ~rte[v].mask)
  <2>1. pin \in [mask : BOOLEAN, level : BOOLEAN, irr : BOOLEAN]
    BY Zenon DEF PtIInv, PtTyped
  <2>. QED  BY <1>1, <2>1, Zenon
<1>11. PtTyped'
  BY <1>1, <1>8, <1>9, <1>10 DEF PtIInv, PtTyped
<1>12. /\ rte'[v].mask = rte[v].mask /\ rte'[v].level = rte[v].level /\ rte'[v].alo = rte[v].alo
       /\ rte[v].remote_irr /\ rte[v].level => rte'[v].remote_irr
  BY <1>5, <1>6, <1>8, Zenon DEF Follows
<1>13. rte'[v].remote_irr => vint'[v] # "none"
  <2>1. rte[v].remote_irr => vint[v] # "none"
    BY Zenon DEF PtIInv, IrrInv
  <2>. QED  BY <2>1, <1>5, <1>6, <1>8, Zenon DEF Follows
<1>14. Owner = v /\ ~rte[v].mask => rte[v].alo = entry.polarity /\ writing[v] # "plain"
  BY Zenon DEF PtIInv, OwnerInv
<1>15. "no" # "plain"
  OBVIOUS
<1>16. Owner' = v /\ ~rte'[v].mask => rte'[v].alo = entry'.polarity /\ writing'[v] # "plain"
  BY <1>1, <1>9, <1>12, <1>14, <1>15, Zenon
<1>17. PinOK(v)'
  <2>. SUFFICES ASSUME Listens(v)'
                PROVE  ~pin'.mask /\ (Asserted(v)' => rte'[v].remote_irr)
    BY Zenon DEF PinOK
  <2>1. Owner = v /\ ~rte[v].mask /\ rte[v].level
    BY <1>1, <1>12, Zenon DEF Listens
  <2>2. writing[v] = "remap"
    BY <1>1, <1>9, <1>14, <2>1, Zenon
  <2>3. ~pin'.mask
    BY <1>10, <2>1, <2>2, Zenon
  <2>4. pin_state'[v] = x.high /\ rte'[v].alo = x.rte.alo
    BY <1>5, <1>6, <1>8, <1>12, Zenon
  <2>5. Asserted(v)' => vioapic_need_intr(x)
    BY <2>4, Zenon DEF Asserted, vioapic_need_intr
  <2>. QED  BY <1>5, <1>6, <1>8, <1>12, <2>1, <2>3, <2>5, Zenon
<1>. QED  BY <1>1, <1>8, <1>9, <1>10, <1>11, <1>13, <1>16, <1>17, OnePin, Zenon

LEMMA Step_reset ==
    ASSUME PtIInv, NEW v \in VMs, reset_vioapics(v)
    PROVE  PtIInv'
<1>1. /\ UNCHANGED <<line, pin, entry, delta, timer, queued, soft, pin_state, writing>>
      /\ Owner' = Owner /\ (Coming' <=> Coming)
      /\ rte' = [rte EXCEPT ![v] = Masked] /\ vint' = [vint EXCEPT ![v] = "none"]
  BY Zenon DEF reset_vioapics, devVars, ptVars, Coming, Owner
<1>2. Masked \in Rte /\ Masked.mask = TRUE /\ Masked.remote_irr = FALSE
  BY Zenon DEF Masked, Rte
<1>3. /\ rte' \in [VMs -> Rte] /\ rte'[v] = Masked /\ vint' \in [VMs -> Vint]
      /\ \A w \in VMs : w # v => rte'[w] = rte[w] /\ vint'[w] = vint[w]
  <2>1. "none" \in Vint /\ rte \in [VMs -> Rte] /\ vint \in [VMs -> Vint]
    BY Zenon DEF PtIInv, PtTyped, Vint
  <2>. QED  BY <1>1, <1>2, <2>1, Zenon
<1>4. PtTyped'
  BY <1>1, <1>3 DEF PtIInv, PtTyped
<1>5. PinOK(v)'
  BY <1>2, <1>3, Zenon DEF PinOK, Listens
<1>. QED  BY <1>1, <1>2, <1>3, <1>4, <1>5, OnePin, Zenon

-----------------------------------------------------------------------------
(* The steps of the device model.                                          *)
LEMMA Step_add == PtIInv /\ ptirq_add_intx_remapping => PtIInv'
<1>. SUFFICES ASSUME PtIInv, ptirq_add_intx_remapping
              PROVE  PtIInv'
  OBVIOUS
<1>1. /\ UNCHANGED <<line, pin, delta, timer, queued, soft, rte, pin_state, vint, writing>>
      /\ entry' = [vm |-> UOS, polarity |-> FALSE] /\ rte[UOS].mask /\ (Coming' <=> Coming)
  BY Zenon DEF ptirq_add_intx_remapping, devVars, vioVars, Coming
<1>2. UOS \in VMs /\ (Owner' = UOS \/ Owner' = NULL)
  BY <1>1, Zenon DEF VMs, Owner
<1>3. entry' \in [vm : VMs, polarity : BOOLEAN] \union {NULL}
  BY <1>1, <1>2, Zenon
<1>4. PtTyped'
  BY <1>1, <1>3 DEF PtIInv, PtTyped
<1>5. PinOK(UOS)'
  BY <1>1, Zenon DEF PinOK, Listens
<1>6. rte[UOS].remote_irr => vint[UOS] # "none"
  BY <1>2, Zenon DEF PtIInv, IrrInv
<1>. QED  BY <1>1, <1>2, <1>4, <1>5, <1>6, OnePin, PtIntxAssumption, Zenon

LEMMA Step_remove == PtIInv /\ ptirq_remove_intx_remapping => PtIInv'
<1>. SUFFICES ASSUME PtIInv, ptirq_remove_intx_remapping
              PROVE  PtIInv'
  OBVIOUS
<1>1. /\ UNCHANGED <<line, delta, soft, rte, pin_state, vint, writing>>
      /\ entry' = NULL /\ queued' = FALSE /\ timer' = [started |-> FALSE, expired |-> TRUE]
      /\ pin' = [pin EXCEPT !.mask = TRUE, !.level = FALSE]
  BY Zenon DEF ptirq_remove_intx_remapping, vioVars
<1>2. /\ pin' \in [mask : BOOLEAN, level : BOOLEAN, irr : BOOLEAN]
      /\ timer' \in [started : BOOLEAN, expired : BOOLEAN]
  <2>1. pin \in [mask : BOOLEAN, level : BOOLEAN, irr : BOOLEAN]
    BY Zenon DEF PtIInv, PtTyped
  <2>. QED  BY <1>1, <2>1, Zenon
<1>3. PtTyped'
  BY <1>1, <1>2, Zenon DEF PtIInv, PtTyped
<1>4. \A v \in VMs : Owner' # v
  BY <1>1, PtIntxAssumption, Zenon DEF Owner
<1>5. OwnerInv' /\ PinInv'
  BY <1>4, Zenon DEF OwnerInv, PinInv, PinOK, Listens
<1>. QED  BY <1>1, <1>3, <1>5, Zenon DEF PtIInv, IrrInv

LEMMA Step_set_delay == PtIInv /\ set_delay => PtIInv'
<1>. SUFFICES ASSUME PtIInv, set_delay
              PROVE  PtIInv'
  OBVIOUS
<1>1. /\ UNCHANGED <<line, pin, entry, timer, queued, soft, rte, pin_state, vint, writing, vioVars>>
      /\ delta' = ~delta /\ (Coming' <=> Coming)
  BY Zenon DEF set_delay, devVars, vioVars, Coming
<1>2. delta' \in BOOLEAN
  BY <1>1, Zenon
<1>3. PtTyped'
  BY <1>1, <1>2 DEF PtIInv, PtTyped
<1>. QED  BY <1>1, <1>3, Waiting, Zenon

LEMMA PtInitially == PtIntxInit => PtIInv
<1>. SUFFICES ASSUME PtIntxInit
              PROVE  PtIInv
  OBVIOUS
<1>1. Masked \in Rte /\ Masked.mask = TRUE /\ Masked.remote_irr = FALSE
  BY Zenon DEF Masked, Rte
<1>2. /\ rte \in [VMs -> Rte] /\ pin_state \in [VMs -> BOOLEAN] /\ vint \in [VMs -> Vint]
      /\ writing \in [VMs -> {"no", "remap", "plain"}] /\ \A v \in VMs : rte[v] = Masked
  BY <1>1, Zenon DEF PtIntxInit, Vint
<1>3. entry \in [vm : VMs, polarity : BOOLEAN] \union {NULL} /\ delta \in BOOLEAN
  <2>1. CASE entry = NULL /\ delta = FALSE
    BY <2>1, Zenon
  <2>2. CASE entry = [vm |-> UOS, polarity |-> FALSE] /\ delta = TRUE
    <3>1. UOS \in VMs
      BY Zenon DEF VMs
    <3>. QED  BY <2>2, <3>1, Zenon
  <2>. QED  BY <2>1, <2>2, Zenon DEF PtIntxInit
<1>4. PtTyped
  BY <1>2, <1>3, Zenon DEF PtIntxInit, PtTyped
<1>. QED  BY <1>1, <1>2, <1>4, Zenon DEF PtIInv, IrrInv, OwnerInv, PinInv, PinOK, Listens

LEMMA PtStep == PtIInv /\ [PtIntxNext]_ptintx_vars => PtIInv'
<1>. SUFFICES ASSUME PtIInv, [PtIntxNext]_ptintx_vars
              PROVE  PtIInv'
  OBVIOUS
<1>1. CASE UNCHANGED ptintx_vars
  BY <1>1, Idle_pt, Zenon
<1>2. CASE device_asserts \/ handle_irq \/ Delay \/ Softirq
  BY <1>2, Step_device_asserts, Step_handle_irq, Step_Delay, Step_dequeue, Step_softirq,
     Step_reads, Step_handle_intx, Zenon DEF Softirq
<1>3. ASSUME NEW v \in VMs, Guest(v) \/ vioapic_indirect_write(v) \/ reset_vioapics(v)
      PROVE  PtIInv'
  BY <1>3, Step_serves, Step_eoi, Step_eoi_done, Step_write, Step_write_done, Step_reset,
     Zenon DEF Guest
<1>4. CASE ptirq_add_intx_remapping \/ ptirq_remove_intx_remapping \/ set_delay
  BY <1>4, Step_add, Step_remove, Step_set_delay, Zenon
<1>. QED  BY <1>1, <1>2, <1>3, <1>4, Zenon DEF PtIntxNext

LEMMA PtImplies == PtIInv => PtIntxInv
<1>. SUFFICES ASSUME PtIInv
              PROVE  PtIntxInv
  OBVIOUS
<1>1. ASSUME NEW v \in VMs, Listens(v), pin.mask
      PROVE  Underway(v)
  BY <1>1, Zenon DEF PtIInv, IrrInv, PinInv, PinOK, Coming, Underway
<1>. QED  BY <1>1, Zenon DEF PtIInv, PtTyped, PtIntxInv, Listens, Rte, Vint

(* A level interrupt of a passthrough device for which handle_irq masked   *)
(* the physical pin is on its way through the softirq, the delay timer,    *)
(* the virtual pin or the guest, and so leads to the unmasking, whatever   *)
(* remappings, removals and resets come between.                           *)
THEOREM PtIntxInvariance == PtIntxSpec => []PtIntxInv
<1>. QED  BY PtInitially, PtStep, PtImplies, PTL DEF PtIntxSpec

-----------------------------------------------------------------------------
(* Every pin of cs that could be delivered was announced.                  *)
Announced(cs) == \A k \in Chips : vpic_get_highest_irrpin(cs[k]) # NONE => cs[k].intr_raised

VpicIInv ==
    /\ chip \in [Chips -> ChipType] /\ VpicInv
    /\ \A k \in Chips : chip[k].poll => "poll" \in use

-----------------------------------------------------------------------------
LEMMA Least ==
    ASSUME NEW S \in SUBSET (0..7), S # {}
    PROVE  \E m \in S : \A u \in S : m <= u
<1>1. CASE 0 \in S
  BY <1>1
<1>2. CASE 0 \notin S /\ 1 \in S
  BY <1>2
<1>3. CASE 0 \notin S /\ 1 \notin S /\ 2 \in S
  BY <1>3
<1>4. CASE 0 \notin S /\ 1 \notin S /\ 2 \notin S /\ 3 \in S
  BY <1>4
<1>5. CASE S \subseteq {4, 5, 6, 7} /\ 4 \in S
  BY <1>5
<1>6. CASE S \subseteq {5, 6, 7} /\ 5 \in S
  BY <1>6
<1>7. CASE S \subseteq {6, 7} /\ 6 \in S
  BY <1>7
<1>8. CASE S \subseteq {7}
  <2>1. 7 \in S /\ (\A u \in S : u = 7) /\ 7 <= 7
    <3>1. PICK u : u \in S
      BY Zenon
    <3>2. \A x \in S : x = 7
      BY <1>8, Zenon
    <3>3. 7 <= 7
      OBVIOUS
    <3>. QED  BY <3>1, <3>2, <3>3, Zenon
  <2>. QED  BY <2>1, Zenon
<1>. QED  BY <1>1, <1>2, <1>3, <1>4, <1>5, <1>6, <1>7, <1>8

(* The pin that is found is one of those that are looked at.               *)
LEMMA HighestPin ==
    ASSUME NEW c \in ChipType, NEW pins \in SUBSET Pins
    PROVE  /\ pins = {} => Highest(c, pins) = NONE
           /\ pins # {} => Highest(c, pins) \in pins
<1>1. ASSUME pins # {}
      PROVE  \E p \in pins : \A q \in pins : rank(c, p) <= rank(c, q)
  <2>1. c.lowprio \in Int /\ Pins \subseteq Int
    <3>1. c.lowprio \in Pins
      BY Zenon DEF ChipType
    <3>2. Pins \subseteq Int
      BY DEF Pins
    <3>. QED  BY <3>1, <3>2, Zenon
  <2>2. ASSUME NEW p \in pins
        PROVE  rank(c, p) \in 0..7
    <3>1. PICK x \in Int : x = p - c.lowprio - 1
      BY <2>1
    <3>2. x % N \in 0..7
      BY VpicAssumption
    <3>. QED  BY <3>1, <3>2, Zenon DEF rank
  <2>3. PICK S : S = {rank(c, p) : p \in pins}
    BY Zenon
  <2>4. S \in SUBSET (0..7) /\ S # {}
    BY <1>1, <2>2, <2>3, Zenon
  <2>5. PICK m \in S : \A u \in S : m <= u
    BY <2>4, Least, Zenon
  <2>. QED  BY <2>3, <2>5, Zenon
<1>. QED  BY <1>1, Zenon DEF Highest

LEMMA Requested ==
    ASSUME NEW c \in ChipType
    PROVE  vpic_get_highest_irrpin(c) = NONE \/ vpic_get_highest_irrpin(c) \in Pins
<1>1. PICK pins : pins = {p \in c.request \ c.mask : \A q \in serviced(c) : rank(c, p) < rank(c, q)}
  BY Zenon
<1>2. pins \in SUBSET Pins /\ pins \subseteq c.request
  BY <1>1, Zenon DEF ChipType
<1>. QED  BY <1>1, <1>2, HighestPin, Zenon DEF vpic_get_highest_irrpin

LEMMA InService ==
    ASSUME NEW c \in ChipType
    PROVE  eoi_pin(c) = NONE \/ eoi_pin(c) \in Pins
<1>1. c.service \in SUBSET Pins /\ c.service \ c.mask \in SUBSET Pins
  BY Zenon DEF ChipType
<1>. QED  BY <1>1, HighestPin, Zenon DEF eoi_pin, vpic_get_highest_isrpin

(* What is looked at to find it.                                           *)
LEMMA SameHighest ==
    ASSUME NEW c, NEW d, d.request = c.request, d.mask = c.mask, d.service = c.service,
           d.smm = c.smm, d.sfn = c.sfn, d.lowprio = c.lowprio
    PROVE  vpic_get_highest_irrpin(d) = vpic_get_highest_irrpin(c)
<1>1. serviced(d) = serviced(c) /\ \A p : rank(d, p) = rank(c, p)
  BY Zenon DEF serviced, rank
<1>2. {p \in d.request \ d.mask : \A q \in serviced(d) : rank(d, p) < rank(d, q)}
        = {p \in c.request \ c.mask : \A q \in serviced(c) : rank(c, p) < rank(c, q)}
  BY <1>1
<1>3. \A pins : Highest(d, pins) = Highest(c, pins)
  BY DEF Highest, rank
<1>. QED  BY <1>2, <1>3, Zenon DEF vpic_get_highest_irrpin

(* Raising the interrupt, and nothing else.                                *)
LEMMA Raising ==
    ASSUME NEW c \in ChipType, NEW b \in BOOLEAN, NEW d, d = [c EXCEPT !.intr_raised = b]
    PROVE  /\ d \in ChipType /\ d.intr_raised = b /\ vpic_get_highest_irrpin(d) = vpic_get_highest_irrpin(c)
           /\ d.ready = c.ready /\ d.poll = c.poll
<1>1. d \in ChipType
  BY Zenon DEF ChipType
<1>2. /\ d.request = c.request /\ d.mask = c.mask /\ d.service = c.service
      /\ d.smm = c.smm /\ d.sfn = c.sfn /\ d.lowprio = c.lowprio /\ d.intr_raised = b
      /\ d.ready = c.ready /\ d.poll = c.poll
  BY Zenon DEF ChipType
<1>. QED  BY <1>1, <1>2, SameHighest, Zenon

(* What vpic_notify_intr leaves behind.                                    *)
LEMMA Notifying ==
    ASSUME NEW cs \in [Chips -> ChipType], NEW w, extint \in BOOLEAN, vpic_notify_intr(cs, w)
    PROVE  /\ chip' \in [Chips -> ChipType] /\ extint' \in BOOLEAN /\ Announced(chip')
           /\ \A k \in Chips : chip'[k].ready = cs[k].ready /\ chip'[k].poll = cs[k].poll
<1>1. PICK after : after = notify_slave(cs)
  BY Zenon
<1>2. PICK b : b = (after["M"].intr_raised \/ notifies(after))
  BY Zenon
<1>3. "M" \in Chips /\ "S" \in Chips /\ \A k \in Chips : k = "M" \/ k = "S"
  BY Zenon DEF Chips
<1>4. cs["M"] \in ChipType /\ cs["S"] \in ChipType
  BY <1>3, Zenon
<1>5. /\ after \in [Chips -> ChipType]
      /\ after["S"].ready = cs["S"].ready /\ after["S"].poll = cs["S"].poll
      /\ after["M"].ready = cs["M"].ready /\ after["M"].poll = cs["M"].poll
      /\ vpic_get_highest_irrpin(after["S"]) # NONE => after["S"].intr_raised
  <2>1. CASE ~cs["S"].intr_raised /\ vpic_get_highest_irrpin(cs["S"]) # NONE
    <3>1. PICK m : m = [cs["M"] EXCEPT !.request = @ \union {Cascade}]
      BY Zenon
    <3>2. PICK s : s = [cs["S"] EXCEPT !.intr_raised = TRUE]
      BY Zenon
    <3>3. m \in ChipType /\ m.ready = cs["M"].ready /\ m.poll = cs["M"].poll
      BY <1>4, <3>1, VpicAssumption, Zenon DEF ChipType
    <3>4. s \in ChipType /\ s.intr_raised /\ s.ready = cs["S"].ready /\ s.poll = cs["S"].poll
      BY <1>4, <3>2, Zenon DEF ChipType
    <3>5. after = [cs EXCEPT !["S"] = s, !["M"] = m]
      BY <1>1, <2>1, <3>1, <3>2, Zenon DEF notify_slave
    <3>6. after["S"] = s /\ after["M"] = m /\ after \in [Chips -> ChipType]
      BY <1>3, <3>3, <3>4, <3>5, Zenon
    <3>. QED  BY <3>3, <3>4, <3>6, Zenon
  <2>2. CASE ~(~cs["S"].intr_raised /\ vpic_get_highest_irrpin(cs["S"]) # NONE)
    <3>1. after = cs
      BY <1>1, <2>2, Zenon DEF notify_slave
    <3>. QED  BY <2>2, <3>1, Zenon
  <2>. QED  BY <2>1, <2>2, Zenon
<1>6. after["M"] \in ChipType /\ after["M"].intr_raised \in BOOLEAN
  BY <1>3, <1>5, Zenon DEF ChipType
<1>7. b \in BOOLEAN /\ (vpic_get_highest_irrpin(after["M"]) # NONE => b)
  BY <1>2, <1>6, Zenon DEF notifies
<1>8. PICK m : m = [after["M"] EXCEPT !.intr_raised = b]
  BY Zenon
<1>9. /\ m \in ChipType /\ m.intr_raised = b /\ m.ready = after["M"].ready /\ m.poll = after["M"].poll
      /\ vpic_get_highest_irrpin(m) = vpic_get_highest_irrpin(after["M"])
  BY <1>6, <1>7, <1>8, Raising
<1>10. chip' = [after EXCEPT !["M"] = m]
  BY <1>1, <1>2, <1>8, Zenon DEF vpic_notify_intr
<1>11. chip' \in [Chips -> ChipType] /\ chip'["M"] = m /\ chip'["S"] = after["S"]
  BY <1>3, <1>5, <1>9, <1>10, Zenon
<1>12. extint' \in BOOLEAN
  BY Zenon DEF vpic_notify_intr
<1>13. Announced(chip')
  <2>1. vpic_get_highest_irrpin(chip'["M"]) # NONE => chip'["M"].intr_raised
    BY <1>7, <1>9, <1>11, Zenon
  <2>2. vpic_get_highest_irrpin(chip'["S"]) # NONE => chip'["S"].intr_raised
    BY <1>5, <1>11, Zenon
  <2>. QED  BY <1>3, <2>1, <2>2, Zenon DEF Announced
<1>. QED  BY <1>3, <1>5, <1>9, <1>11, <1>12, <1>13, Zenon

LEMMA VpicKeeps ==
    ASSUME VpicIInv, chip' \in [Chips -> ChipType], extint' \in BOOLEAN, use' = use,
           spinning' \in BOOLEAN, lines' \subseteq Chips \X Pins,
           wire' \in {"INTR", "LAPIC", "IOAPIC", "NULL"},
           injecting' \in (Chips \X Pins) \union {NONE},
           "poll" \notin use /\ (\A k \in Chips : chip'[k].ready) => Announced(chip'),
           \A k \in Chips : chip'[k].poll => "poll" \in use
    PROVE  VpicIInv'
BY Zenon DEF VpicIInv, VpicInv, Announced

(* A chip that changes, with the notification that follows.                *)
LEMMA Finishing ==
    ASSUME VpicIInv, NEW k \in Chips, NEW c \in ChipType, Finish(k, c), c.poll => "poll" \in use,
           spinning' \in BOOLEAN, UNCHANGED <<use, lines, wire, injecting>>
    PROVE  VpicIInv'
<1>1. PICK cs : cs = [chip EXCEPT ![k] = c]
  BY Zenon
<1>2. /\ cs \in [Chips -> ChipType] /\ cs[k] = c /\ extint \in BOOLEAN
      /\ \A j \in Chips : cs[j].poll => "poll" \in use
  BY <1>1, Zenon DEF VpicIInv, VpicInv
<1>3. CASE c.ready
  <2>1. vpic_notify_intr(cs, wire)
    BY <1>1, <1>3, Zenon DEF Finish
  <2>2. /\ chip' \in [Chips -> ChipType] /\ extint' \in BOOLEAN /\ Announced(chip')
        /\ \A j \in Chips : chip'[j].poll = cs[j].poll
    BY <1>2, <2>1, Notifying
  <2>. QED  BY <1>2, <2>2, VpicKeeps, Zenon DEF VpicIInv, VpicInv
<1>4. CASE ~c.ready
  <2>1. chip' = cs /\ extint' = extint
    BY <1>1, <1>4, Zenon DEF Finish
  <2>. QED  BY <1>2, <1>4, <2>1, VpicKeeps, Zenon DEF VpicIInv, VpicInv
<1>. QED  BY <1>3, <1>4, Zenon

LEMMA SettingPin ==
    ASSUME NEW cs \in [Chips -> ChipType], NEW k \in Chips, NEW p \in Pins,
           NEW ds, \E r \in {cs[k].request, cs[k].request \union {p}, cs[k].request \ {p}} :
                       ds = [cs EXCEPT ![k].request = r]
    PROVE  ds \in [Chips -> ChipType] /\ \A j \in Chips : ds[j].poll = cs[j].poll
<1>1. cs[k] \in ChipType /\ cs[k].request \in SUBSET Pins
  BY Zenon DEF ChipType
<1>2. PICK r \in SUBSET Pins : ds = [cs EXCEPT ![k].request = r]
  BY <1>1, Zenon
<1>3. PICK c : c = [cs[k] EXCEPT !.request = r]
  BY Zenon
<1>4. c \in ChipType /\ c.poll = cs[k].poll
  BY <1>1, <1>2, <1>3, Zenon DEF ChipType
<1>5. ds = [cs EXCEPT ![k] = c]
  BY <1>2, <1>3, Zenon
<1>. QED  BY <1>4, <1>5, Zenon

LEMMA Accepting ==
    ASSUME NEW c \in ChipType, NEW p \in Pins
    PROVE  vpic_pin_accepted(c, p) \in ChipType /\ vpic_pin_accepted(c, p).poll = c.poll
<1>1. PICK r : r = IF p \in c.elc THEN c.request ELSE c.request \ {p}
  BY Zenon
<1>2. PICK l : l = IF c.aeoi /\ c.rotate THEN p ELSE c.lowprio
  BY Zenon
<1>3. PICK s : s = IF c.aeoi THEN c.service ELSE c.service \union {p}
  BY Zenon
<1>4. r \in SUBSET Pins /\ l \in Pins /\ s \in SUBSET Pins
  BY <1>1, <1>2, <1>3, Zenon DEF ChipType
<1>5. PICK d : d = [c EXCEPT !.intr_raised = FALSE, !.request = r, !.lowprio = l, !.service = s]
  BY Zenon
<1>6. d \in ChipType /\ d.poll = c.poll
  BY <1>4, <1>5, Zenon DEF ChipType
<1>7. vpic_pin_accepted(c, p) = d
  BY <1>1, <1>2, <1>3, <1>5, Zenon DEF vpic_pin_accepted
<1>. QED  BY <1>6, <1>7, Zenon

-----------------------------------------------------------------------------
(* Lines that change.                                                      *)
LEMMA Step_lines ==
    ASSUME VpicIInv, NEW k \in Chips, NEW p \in Pins, set_irqline(k, p) \/ handle_intx(k, p)
    PROVE  VpicIInv'
<1>1. /\ chip \in [Chips -> ChipType] /\ extint \in BOOLEAN /\ spinning \in BOOLEAN
      /\ lines \subseteq Chips \X Pins /\ <<k, p>> \in Chips \X Pins
      /\ wire \in {"INTR", "LAPIC", "IOAPIC", "NULL"} /\ injecting \in (Chips \X Pins) \union {NONE}
      /\ \A j \in Chips : chip[j].poll => "poll" \in use
  BY Zenon DEF VpicIInv, VpicInv
<1>2. UNCHANGED <<use, wire, injecting, spinning>> /\ lines' \subseteq Chips \X Pins
  BY <1>1, Zenon DEF set_irqline, handle_intx, vpic_set_irqline
<1>3. \E cs \in [Chips -> ChipType] : /\ vpic_notify_intr(cs, wire)
                                     /\ \A j \in Chips : cs[j].poll = chip[j].poll
  <2>0. chip \in [Chips -> ChipType]
    BY <1>1, Zenon
  <2>1. ASSUME NEW up \in BOOLEAN, vpic_set_irqline(k, p, up)
        PROVE  \E cs \in [Chips -> ChipType] : /\ vpic_notify_intr(cs, wire)
                                                /\ \A j \in Chips : cs[j].poll = chip[j].poll
    <3>1. PICK cs : cs = vpic_set_pinstate(chip, k, p, <<k, p>> \in lines, up)
      BY Zenon
    <3>2. \E r \in {chip[k].request, chip[k].request \union {p}, chip[k].request \ {p}} :
             cs = [chip EXCEPT ![k].request = r]
      BY <3>1, Zenon DEF vpic_set_pinstate
    <3>3. cs \in [Chips -> ChipType] /\ \A j \in Chips : cs[j].poll = chip[j].poll
      BY <2>0, <3>2, SettingPin
    <3>. QED  BY <2>1, <3>1, <3>3, Zenon DEF vpic_set_irqline
  <2>2. PICK c1 : c1 = vpic_set_pinstate(chip, k, p, <<k, p>> \in lines, TRUE)
    BY Zenon
  <2>3. PICK c2 : c2 = vpic_set_pinstate(c1, k, p, TRUE, FALSE)
    BY Zenon
  <2>4. c1 \in [Chips -> ChipType] /\ \A j \in Chips : c1[j].poll = chip[j].poll
    <3>1. \E r \in {chip[k].request, chip[k].request \union {p}, chip[k].request \ {p}} :
             c1 = [chip EXCEPT ![k].request = r]
      BY <2>2, Zenon DEF vpic_set_pinstate
    <3>. QED  BY <2>0, <3>1, SettingPin
  <2>5. c2 \in [Chips -> ChipType] /\ \A j \in Chips : c2[j].poll = chip[j].poll
    <3>1. \E r \in {c1[k].request, c1[k].request \union {p}, c1[k].request \ {p}} :
             c2 = [c1 EXCEPT ![k].request = r]
      BY <2>3, Zenon DEF vpic_set_pinstate
    <3>. QED  BY <2>4, <3>1, SettingPin
  <2>6. (\E up \in BOOLEAN : vpic_set_irqline(k, p, up)) \/ vpic_notify_intr(c2, wire)
    BY <2>2, <2>3, Zenon DEF set_irqline, handle_intx
  <2>. QED  BY <2>1, <2>5, <2>6, Zenon
<1>4. PICK cs \in [Chips -> ChipType] : /\ vpic_notify_intr(cs, wire)
                                       /\ \A j \in Chips : cs[j].poll = chip[j].poll
  BY <1>3, Zenon
<1>5. /\ chip' \in [Chips -> ChipType] /\ extint' \in BOOLEAN /\ Announced(chip')
      /\ \A j \in Chips : chip'[j].poll = cs[j].poll
  BY <1>1, <1>4, Notifying
<1>. QED  BY <1>1, <1>2, <1>4, <1>5, VpicKeeps, Zenon

(* The boot vCPU takes the highest pin, and accepts it.                    *)
LEMMA Step_extint ==
    ASSUME VpicIInv, vcpu_do_pending_extint
    PROVE  VpicIInv'
<1>1. chip["M"] \in ChipType /\ chip["S"] \in ChipType /\ "M" \in Chips /\ "S" \in Chips
  BY Zenon DEF VpicIInv, VpicInv, Chips
<1>2. Pending(chip) \in (Chips \X Pins) \union {NONE}
  <2>1. PICK m : m = vpic_get_highest_irrpin(chip["M"])
    BY Zenon
  <2>2. PICK s : s = vpic_get_highest_irrpin(chip["S"])
    BY Zenon
  <2>3. (m = NONE \/ m \in Pins) /\ (s = NONE \/ s \in Pins)
    BY <1>1, <2>1, <2>2, Requested, Zenon
  <2>4. Pending(chip) \in {NONE, <<"M", m>>, <<"S", s>>}
        /\ (Pending(chip) = <<"M", m>> => Pending(chip) = NONE \/ m \in Pins)
        /\ (Pending(chip) = <<"S", s>> => Pending(chip) = NONE \/ s \in Pins)
    BY <2>1, <2>2, <2>3, Zenon DEF Pending
  <2>. QED  BY <1>1, <2>4
<1>3. extint' \in BOOLEAN
  BY Zenon DEF vcpu_do_pending_extint
<1>. QED  BY <1>2, <1>3, VpicKeeps, Zenon DEF VpicIInv, VpicInv, Announced, vcpu_do_pending_extint

LEMMA Step_accepted ==
    ASSUME VpicIInv, vpic_intr_accepted
    PROVE  VpicIInv'
<1>1. /\ chip \in [Chips -> ChipType] /\ extint \in BOOLEAN
      /\ \A j \in Chips : chip[j].poll => "poll" \in use
  BY Zenon DEF VpicIInv, VpicInv
<1>2. PICK k \in Chips, p \in Pins : injecting = <<k, p>>
  <2>1. injecting \in Chips \X Pins
    BY Zenon DEF VpicIInv, VpicInv, vpic_intr_accepted
  <2>. QED  BY <2>1
<1>3. injecting[1] = k /\ injecting[2] = p
  BY <1>2, Zenon
<1>4. PICK own : own = [chip EXCEPT ![k] = vpic_pin_accepted(chip[k], p)]
  BY Zenon
<1>5. own \in [Chips -> ChipType] /\ \A j \in Chips : own[j].poll = chip[j].poll
  <2>1. vpic_pin_accepted(chip[k], p) \in ChipType /\ vpic_pin_accepted(chip[k], p).poll = chip[k].poll
    BY <1>1, Accepting, Zenon
  <2>. QED  BY <1>1, <1>4, <2>1, Zenon
<1>6. PICK cs : cs = IF k = "M" THEN own ELSE [own EXCEPT !["M"] = vpic_pin_accepted(own["M"], Cascade)]
  BY Zenon
<1>7. cs \in [Chips -> ChipType] /\ \A j \in Chips : cs[j].poll = own[j].poll
  <2>1. "M" \in Chips /\ Cascade \in Pins
    BY VpicAssumption, Zenon DEF Chips
  <2>2. vpic_pin_accepted(own["M"], Cascade) \in ChipType /\ vpic_pin_accepted(own["M"], Cascade).poll = own["M"].poll
    BY <1>5, <2>1, Accepting, Zenon
  <2>. QED  BY <1>5, <1>6, <2>1, <2>2, Zenon
<1>8. vpic_notify_intr(cs, wire)
  BY <1>3, <1>4, <1>6, Zenon DEF vpic_intr_accepted
<1>9. /\ chip' \in [Chips -> ChipType] /\ extint' \in BOOLEAN /\ Announced(chip')
      /\ \A j \in Chips : chip'[j].poll = cs[j].poll
  BY <1>1, <1>7, <1>8, Notifying
<1>10. \A j \in Chips : chip'[j].poll => "poll" \in use
  BY <1>1, <1>5, <1>7, <1>9, Zenon
<1>. QED  BY <1>9, <1>10, VpicKeeps, Zenon DEF VpicIInv, VpicInv, vpic_intr_accepted

-----------------------------------------------------------------------------
(* The registers.                                                          *)
LEMMA Step_ocw ==
    ASSUME VpicIInv, NEW k \in Chips, vpic_ocw1(k) \/ vpic_ocw2(k) \/ vpic_ocw3(k)
    PROVE  VpicIInv'
<1>1. PICK c : c = chip[k]
  BY Zenon
<1>2. c \in ChipType /\ (c.poll => "poll" \in use) /\ spinning \in BOOLEAN /\ Wired[k] \subseteq Pins
  BY <1>1, Zenon DEF VpicIInv, VpicInv, Wired
<1>3. CASE vpic_ocw1(k)
  <2>1. PICK val \in SUBSET Wired[k] : Finish(k, [c EXCEPT !.mask = val])
    BY <1>1, <1>3, Zenon DEF vpic_ocw1
  <2>2. PICK d : d = [c EXCEPT !.mask = val]
    BY Zenon
  <2>3. val \in SUBSET Pins
    BY <1>2, <2>1, Zenon
  <2>4. d \in ChipType /\ d.poll = c.poll
    BY <1>2, <2>2, <2>3, Zenon DEF ChipType
  <2>5. Finish(k, d) /\ UNCHANGED <<use, lines, wire, injecting, spinning>>
    BY <1>3, <2>1, <2>2, Zenon DEF vpic_ocw1
  <2>. QED  BY <1>2, <2>4, <2>5, Finishing, Zenon
<1>4. ASSUME NEW p, p = NONE \/ p \in Pins, NEW r \in BOOLEAN, vpic_eoi(k, p, r)
      PROVE  VpicIInv'
  <2>1. CASE spinning' = TRUE /\ UNCHANGED <<chip, extint>>
    BY <1>4, <2>1, VpicKeeps, Zenon DEF VpicIInv, VpicInv, Announced, vpic_eoi
  <2>2. CASE ~(spinning' = TRUE /\ UNCHANGED <<chip, extint>>)
    <3>1. PICK l : l = IF r /\ p # NONE THEN p ELSE c.lowprio
      BY Zenon
    <3>2. PICK d : d = [c EXCEPT !.service = c.service \ {p}, !.rotate = r, !.lowprio = l]
      BY Zenon
    <3>3. l \in Pins /\ c.service \ {p} \in SUBSET Pins
      BY <1>2, <1>4, <3>1, Zenon DEF ChipType
    <3>4. d \in ChipType /\ d.poll = c.poll
      BY <1>2, <3>2, <3>3, Zenon DEF ChipType
    <3>5. Finish(k, d) /\ UNCHANGED <<use, lines, wire, injecting, spinning>>
      BY <1>1, <1>4, <2>2, <3>1, <3>2, Zenon DEF vpic_eoi
    <3>. QED  BY <1>2, <3>4, <3>5, Finishing, Zenon
  <2>. QED  BY <2>1, <2>2, Zenon
<1>5. ASSUME NEW p \in Wired[k], Finish(k, [chip[k] EXCEPT !.rotate = TRUE, !.lowprio = p]),
             UNCHANGED <<use, lines, wire, injecting, spinning>>
      PROVE  VpicIInv'
  <2>1. PICK d : d = [c EXCEPT !.rotate = TRUE, !.lowprio = p]
    BY Zenon
  <2>2. d \in ChipType /\ d.poll = c.poll
    BY <1>2, <1>5, <2>1, Zenon DEF ChipType
  <2>. QED  BY <1>1, <1>2, <1>5, <2>1, <2>2, Finishing, Zenon
<1>6. CASE vpic_ocw2(k)
  <2>1. \A p \in Wired[k] \union {eoi_pin(chip[k])} : p = NONE \/ p \in Pins
    BY <1>1, <1>2, InService, Zenon
  <2>2. \A r \in Rotates : r \in BOOLEAN
    BY Zenon DEF Rotates
  <2>. QED  BY <1>4, <1>5, <1>6, <2>1, <2>2, Zenon DEF vpic_ocw2
<1>7. CASE vpic_ocw3(k)
  <2>1. UNCHANGED <<use, lines, wire, injecting, spinning>>
    BY <1>7, Zenon DEF vpic_ocw3
  <2>2. CASE Finish(k, [c EXCEPT !.smm = ~@])
    <3>1. PICK d : d = [c EXCEPT !.smm = ~c.smm]
      BY Zenon
    <3>2. d \in ChipType /\ d.poll = c.poll
      BY <1>2, <3>1, Zenon DEF ChipType
    <3>. QED  BY <1>2, <2>1, <2>2, <3>1, <3>2, Finishing, Zenon
  <2>3. CASE "poll" \in use /\ Finish(k, [c EXCEPT !.poll = TRUE])
    <3>1. PICK d : d = [c EXCEPT !.poll = TRUE]
      BY Zenon
    <3>2. d \in ChipType
      BY <1>2, <3>1, Zenon DEF ChipType
    <3>. QED  BY <1>2, <2>1, <2>3, <3>1, <3>2, Finishing, Zenon
  <2>. QED  BY <1>1, <1>7, <2>2, <2>3, Zenon DEF vpic_ocw3
<1>. QED  BY <1>3, <1>6, <1>7, Zenon

LEMMA Step_read ==
    ASSUME VpicIInv, NEW k \in Chips, vpic_read(k)
    PROVE  VpicIInv'
<1>1. chip[k] \in ChipType /\ chip[k].poll /\ "poll" \in use /\ UNCHANGED <<use, extint, lines, wire, injecting, spinning>>
  BY Zenon DEF VpicIInv, VpicInv, vpic_read
<1>2. PICK p : p = vpic_get_highest_irrpin(chip[k])
  BY Zenon
<1>3. PICK c : c = IF p = NONE THEN chip[k] ELSE vpic_pin_accepted(chip[k], p)
  BY Zenon
<1>4. c \in ChipType
  BY <1>1, <1>2, <1>3, Requested, Accepting, Zenon
<1>5. PICK d : d = [c EXCEPT !.poll = FALSE]
  BY Zenon
<1>6. d \in ChipType
  BY <1>4, <1>5, Zenon DEF ChipType
<1>7. chip' = [chip EXCEPT ![k] = d]
  BY <1>2, <1>3, <1>5, Zenon DEF vpic_read
<1>8. chip' \in [Chips -> ChipType]
  BY <1>6, <1>7, Zenon DEF VpicIInv
<1>. QED  BY <1>1, <1>8, VpicKeeps, Zenon DEF VpicIInv, VpicInv

LEMMA Step_icw ==
    ASSUME VpicIInv, NEW k \in Chips, vpic_icw1(k) \/ vpic_icw(k)
    PROVE  VpicIInv'
<1>1. PICK c : c = chip[k]
  BY Zenon
<1>2. c \in ChipType /\ (c.poll => "poll" \in use) /\ spinning \in BOOLEAN
  BY <1>1, Zenon DEF VpicIInv, VpicInv
<1>3. CASE vpic_icw1(k)
  <2>1. PICK n \in {1, 2} :
           chip' = [chip EXCEPT ![k].ready = FALSE, ![k].icw_num = n, ![k].request = {}, ![k].mask = {},
                                ![k].lowprio = N - 1, ![k].poll = FALSE, ![k].smm = FALSE]
    BY <1>3, Zenon DEF vpic_icw1
  <2>2. PICK d : d = [c EXCEPT !.ready = FALSE, !.icw_num = n, !.request = {}, !.mask = {},
                               !.lowprio = N - 1, !.poll = FALSE, !.smm = FALSE]
    BY Zenon
  <2>3. n \in 0..4 /\ N - 1 \in Pins
    BY <2>1, VpicAssumption DEF Pins
  <2>4. d \in ChipType /\ d.ready = FALSE /\ d.poll = FALSE
    BY <1>2, <2>2, <2>3, Zenon DEF ChipType
  <2>5. chip' = [chip EXCEPT ![k] = d]
    BY <1>1, <2>1, <2>2, Zenon
  <2>6. chip' \in [Chips -> ChipType] /\ chip'[k] = d /\ \A j \in Chips : j # k => chip'[j] = chip[j]
    BY <2>4, <2>5, Zenon DEF VpicIInv
  <2>7. ~chip'[k].ready /\ \A j \in Chips : chip'[j].poll => "poll" \in use
    BY <2>4, <2>6, Zenon DEF VpicIInv
  <2>8. UNCHANGED <<extint, use, lines, wire, injecting, spinning>>
    BY <1>3, Zenon DEF vpic_icw1
  <2>. QED  BY <2>6, <2>7, <2>8, VpicKeeps, Zenon DEF VpicIInv, VpicInv
<1>4. CASE vpic_icw(k)
  <2>1. UNCHANGED <<use, lines, wire, injecting, spinning>>
    BY <1>4, Zenon DEF vpic_icw
  <2>2. CASE c.icw_num \in 2..4 /\ c.icw_num # 4 /\ Finish(k, [c EXCEPT !.icw_num = @ + 1])
    <3>1. PICK n : n = c.icw_num + 1
      BY Zenon
    <3>2. n \in 0..4
      BY <2>2, <3>1
    <3>3. PICK d : d = [c EXCEPT !.icw_num = n]
      BY Zenon
    <3>4. d \in ChipType /\ d.poll = c.poll
      BY <1>2, <3>2, <3>3, Zenon DEF ChipType
    <3>. QED  BY <1>2, <2>1, <2>2, <3>1, <3>3, <3>4, Finishing, Zenon
  <2>3. CASE Finish(k, c)
    BY <1>2, <2>1, <2>3, Finishing, Zenon
  <2>4. ASSUME NEW aeoi \in BOOLEAN, NEW sfnm \in BOOLEAN,
               Finish(k, [c EXCEPT !.icw_num = 0, !.ready = TRUE, !.aeoi = @ \/ aeoi,
                                   !.sfn = @ \/ (sfnm /\ k = "M")])
        PROVE  VpicIInv'
    <3>1. PICK a : a = (c.aeoi \/ aeoi)
      BY Zenon
    <3>2. PICK b : b = (c.sfn \/ (sfnm /\ k = "M"))
      BY Zenon
    <3>3. PICK d : d = [c EXCEPT !.icw_num = 0, !.ready = TRUE, !.aeoi = a, !.sfn = b]
      BY Zenon
    <3>4. 0 \in 0..4
      OBVIOUS
    <3>5. a \in BOOLEAN /\ b \in BOOLEAN
      BY <3>1, <3>2, Zenon
    <3>6. d \in ChipType /\ d.poll = c.poll
      BY <1>2, <3>3, <3>4, <3>5, Zenon DEF ChipType
    <3>. QED  BY <1>2, <2>1, <2>4, <3>1, <3>2, <3>3, <3>6, Finishing, Zenon
  <2>. QED  BY <1>1, <1>4, <2>2, <2>3, <2>4, Zenon DEF vpic_icw
<1>. QED  BY <1>3, <1>4, Zenon

(* The trigger modes and the wire do not matter to what is found.          *)
LEMMA Step_elc ==
    ASSUME VpicIInv, NEW k \in Chips, vpic_elc_handler(k)
    PROVE  VpicIInv'
<1>1. PICK c : c = chip[k]
  BY Zenon
<1>2. c \in ChipType
  BY <1>1, Zenon DEF VpicIInv
<1>3. PICK e : e = IF c.elc = {} THEN Elc(k) ELSE {}
  BY Zenon
<1>4. PICK d : d = [c EXCEPT !.elc = e]
  BY Zenon
<1>5. e \in SUBSET Pins
  BY <1>3, Zenon DEF Elc
<1>6. d \in ChipType
  BY <1>2, <1>4, <1>5, Zenon DEF ChipType
<1>7. /\ d.request = c.request /\ d.mask = c.mask /\ d.service = c.service /\ d.smm = c.smm
      /\ d.sfn = c.sfn /\ d.lowprio = c.lowprio /\ d.intr_raised = c.intr_raised
      /\ d.ready = c.ready /\ d.poll = c.poll
  BY <1>2, <1>4, Zenon DEF ChipType
<1>8. vpic_get_highest_irrpin(d) = vpic_get_highest_irrpin(c)
  BY <1>7, SameHighest, Zenon
<1>9. chip' = [chip EXCEPT ![k] = d] /\ UNCHANGED <<extint, use, lines, wire, injecting, spinning>>
  BY <1>1, <1>3, <1>4, Zenon DEF vpic_elc_handler
<1>10. chip' \in [Chips -> ChipType] /\ chip'[k] = d /\ \A j \in Chips : j # k => chip'[j] = chip[j]
  BY <1>6, <1>9, Zenon DEF VpicIInv
<1>11. /\ \A j \in Chips : chip'[j].ready = chip[j].ready /\ chip'[j].poll = chip[j].poll
       /\ Announced(chip) => Announced(chip')
  BY <1>1, <1>7, <1>8, <1>10, Zenon DEF Announced
<1>. QED  BY <1>9, <1>10, <1>11, VpicKeeps, Zenon DEF VpicIInv, VpicInv, Announced

LEMMA Step_wire ==
    ASSUME VpicIInv, change_wire
    PROVE  VpicIInv'
<1>1. wire' \in {"INTR", "LAPIC", "IOAPIC", "NULL"}
  BY Zenon DEF VpicIInv, VpicInv, change_wire, wire_step
<1>. QED  BY <1>1, VpicKeeps, Zenon DEF VpicIInv, VpicInv, Announced, change_wire

LEMMA VpicInitially ==
    ASSUME VpicInit
    PROVE  VpicIInv
<1>1. 0 \in 0..4 /\ N - 1 \in Pins /\ 0 \in Pins
  BY VpicAssumption DEF Pins
<1>2. Chip \in ChipType /\ Chip.poll = FALSE /\ Chip.request = {} /\ Chip.ready = FALSE
  BY <1>1, Zenon DEF Chip, ChipType
<1>3. ASSUME NEW k \in Chips, NEW a \in BOOLEAN, NEW b \in BOOLEAN, NEW c,
             c = [Ready(k) EXCEPT !.sfn = b, !.aeoi = a]
      PROVE  c \in ChipType /\ c.poll = FALSE /\ c.request = {}
  <2>1. Elc(k) \in SUBSET Pins
    BY Zenon DEF Elc
  <2>2. Ready(k) \in ChipType /\ Ready(k).poll = FALSE /\ Ready(k).request = {}
    BY <1>1, <1>2, <2>1, Zenon DEF Ready, ChipType
  <2>. QED  BY <1>3, <2>2, Zenon DEF ChipType
<1>4. /\ chip \in [Chips -> ChipType]
      /\ \A k \in Chips : chip[k].poll = FALSE /\ chip[k].request = {}
  <2>1. CASE chip = [k \in Chips |-> Chip]
    BY <1>2, <2>1, Zenon
  <2>2. ASSUME NEW a \in BOOLEAN, NEW b \in BOOLEAN,
               chip = [k \in Chips |-> [Ready(k) EXCEPT !.sfn = k = "M" /\ b, !.aeoi = a]]
        PROVE  /\ chip \in [Chips -> ChipType]
               /\ \A k \in Chips : chip[k].poll = FALSE /\ chip[k].request = {}
    <3>1. ASSUME NEW k \in Chips
          PROVE  chip[k] \in ChipType /\ chip[k].poll = FALSE /\ chip[k].request = {}
      <4>1. (k = "M" /\ b) \in BOOLEAN
        BY Zenon
      <4>2. chip[k] = [Ready(k) EXCEPT !.sfn = k = "M" /\ b, !.aeoi = a]
        BY <2>2, Zenon
      <4>. QED  BY <1>3, <4>1, <4>2, Zenon
    <3>. QED  BY <2>2, <3>1, Zenon
  <2>3. \/ chip = [k \in Chips |-> Chip]
        \/ \E b \in BOOLEAN, a \in BOOLEAN :
             chip = [k \in Chips |-> [Ready(k) EXCEPT !.sfn = k = "M" /\ b, !.aeoi = a]]
    BY Zenon DEF VpicInit
  <2>. QED  BY <2>1, <2>2, <2>3, Zenon
<1>5. \A k \in Chips : vpic_get_highest_irrpin(chip[k]) = NONE
  <2>. SUFFICES ASSUME NEW k \in Chips
                PROVE  vpic_get_highest_irrpin(chip[k]) = NONE
    BY Zenon
  <2>1. {p \in chip[k].request \ chip[k].mask :
            \A q \in serviced(chip[k]) : rank(chip[k], p) < rank(chip[k], q)} = {}
    BY <1>4, Zenon
  <2>. QED  BY <2>1, Zenon DEF vpic_get_highest_irrpin, Highest
<1>. QED  BY <1>4, <1>5, Zenon DEF VpicIInv, VpicInv, VpicInit

(* A pin of the virtual PICs that could be delivered has been announced,   *)
(* by the slave to the master and by the master to the boot vCPU, for any  *)
(* number of pins that a chip may have, any devices and any way of using   *)
(* the registers except the poll command, while both chips are ready.      *)
THEOREM VpicInvariance == VpicSpec => []VpicInv
<1>1. VpicInit => VpicIInv
  BY VpicInitially, Zenon
<1>2. VpicIInv /\ [VpicNext]_picvars => VpicIInv'
  <2>1. VpicIInv /\ UNCHANGED picvars => VpicIInv'
    BY Zenon DEF VpicIInv, VpicInv, picvars
  <2>2. ASSUME VpicIInv, VpicNext
        PROVE  VpicIInv'
    BY <2>2, Step_lines, Step_extint, Step_accepted, Step_ocw, Step_read, Step_icw, Step_elc, Step_wire, Zenon
       DEF VpicNext, PicGuest
  <2>. QED  BY <2>1, <2>2, Zenon
<1>3. VpicIInv => VpicInv
  BY Zenon DEF VpicIInv
<1>. QED  BY <1>1, <1>2, <1>3, PTL DEF VpicSpec
=============================================================================

-------------------------------- MODULE Ept --------------------------------
(***************************************************************************)
(* The extended page tables of a VM: mmu_add and mmu_modify_or_del over    *)
(* four levels with large pages (arch/x86/pagetable.c), called under       *)
(* ept_lock (arch/x86/guest/ept.c), while a vCPU of the VM keeps on        *)
(* translating through the table and through its TLB.                      *)
(*                                                                         *)
(* A call changes the table one entry at a time, and every entry it writes *)
(* is a step.  The page of a table belongs to its addresses (page.c), so   *)
(* that one function holds all tables of a level.  Addresses and sizes are *)
(* in pages, a table has PTRS entries.  What is mapped is bounded by       *)
(* ept_is_mr_valid; the secure world has a table of its own.               *)
(***************************************************************************)
EXTENDS Naturals, Sequences, FiniteSets, SequencesExt

CONSTANTS
    PTRS,        \* PTRS_PER_PTE, and the same on every level
    Callers,     \* the threads that change the table
    Adds,        \* the calls of ept_add_mr: [pa, va, size, prot]
    Changes,     \* those of ept_modify_mr: [va, size, set, clr]
    Dels,        \* those of ept_del_mr: [va, size]
    MaxCalls,    \* bound on the calls
    Probes,      \* the addresses that the vCPU uses
    Force4k,     \* is_ept_force_4k_ipage: no large page is executable
    LargeLevels, \* the levels that may map a page: "pd", with 1 GB pages "pdpt",
                 \* neither for a real-time VM that is given small pages
    NONE

VARIABLES
    table,       \* [level -> [index -> entry]]
    writes,      \* what the holder of ept_lock is going to write
    old, new,    \* [page -> its mapping before the call, and after it]
    caller,      \* [thread -> "idle", "locked", "flush"]
    tlb,         \* a translation in the TLB of the vCPU: [va, map], or NONE
    flush,       \* ACRN_REQUEST_EPT_FLUSH is pending for it
    started,     \* the VM has been started
    calls

eptvars == <<table, writes, old, new, caller, tlb, flush, started, calls>>

PTE_SIZE == 1
PDE_SIZE == PTRS
PDPTE_SIZE == PTRS * PTRS
PML4E_SIZE == PTRS * PTRS * PTRS
Pages == 0..2 * PML4E_SIZE - 1
SizeOf == [pml4 |-> PML4E_SIZE, pdpt |-> PDPTE_SIZE, pd |-> PDE_SIZE, pt |-> PTE_SIZE]

RWX == {"R", "W", "X"}
NotPresent == [prot |-> {}, large |-> FALSE, pa |-> 0]
Table(prot) == [prot |-> prot, large |-> FALSE, pa |-> 0]
Page(pa, prot) == [prot |-> prot, large |-> FALSE, pa |-> pa]
LargePage(pa, prot) == [prot |-> prot, large |-> TRUE, pa |-> pa]
pgentry_present(e) == e.prot \intersect RWX # {}
tweak_exe_right(prot) == IF Force4k THEN prot \ {"X"} ELSE prot
recover_exe_right(prot) == IF Force4k THEN prot \union {"X"} ELSE prot

-----------------------------------------------------------------------------
(* A call in progress: the table as it will be, and the entries written.   *)
set_pgentry(s, level, i, e) ==
    [t |-> [s.t EXCEPT ![level][i] = e], w |-> Append(s.w, [level |-> level, i |-> i, e |-> e])]
(* All entries of the table of that level at va, from the first on.        *)
Fill(s, level, va, entries) ==
    LET base == (va \div (PTRS * SizeOf[level])) * PTRS IN
    FoldLeft(LAMBDA r, k : set_pgentry(r, level, base + k, entries[k]), s, [k \in 1..PTRS |-> k - 1])
construct_pgentry(s, level, i, below, va) ==
    set_pgentry(Fill(s, below, va, [k \in 0..PTRS - 1 |-> NotPresent]), level, i, Table(RWX))

(* The entries of one table that [va, end) meets, in order, each with the  *)
(* first address there; the loops end with the table or with the range.    *)
Steps(level, va, end) ==
    LET size == SizeOf[level]
        top == (va \div (PTRS * size) + 1) * PTRS * size
        last == ((IF end < top THEN end ELSE top) - 1) \div size
        first == va \div size
    IN  [k \in 1..last - first + 1 |->
           LET i == first + k - 1 IN
           [i |-> i, va |-> IF k = 1 THEN va ELSE i * size, next |-> (i + 1) * size]]
Whole(level, st, end) == st.next <= end /\ (st.va % SizeOf[level]) = 0

-----------------------------------------------------------------------------
(* mmu_add.  What is mapped stays mapped as it is.  The right to execute   *)
(* that a large page must not have is taken from prot for the rest of the  *)
(* loop.                                                                   *)
add_pte(s, pa, va, end, prot) ==
    FoldLeft(LAMBDA r, st : IF pgentry_present(r.t["pt"][st.i]) THEN r
                            ELSE set_pgentry(r, "pt", st.i, Page(pa + st.va - va, prot)),
             s, Steps("pt", va, end))
large_page_support(level) == level \in LargeLevels
MapsLarge(level, st, pa, end) ==
    large_page_support(level) /\ Whole(level, st, end) /\ (pa % SizeOf[level]) = 0
AddEntry(level, below, r, st, pa, end) ==
    LET e == r.s.t[level][st.i]
        large == tweak_exe_right(r.prot)
    IN  CASE e.large \/ pgentry_present(e) -> r
          [] ~e.large /\ ~pgentry_present(e) /\ MapsLarge(level, st, pa, end) ->
               [s |-> set_pgentry(r.s, level, st.i, LargePage(pa, large)), prot |-> large]
          [] OTHER -> [r EXCEPT !.s = construct_pgentry(r.s, level, st.i, below, st.va)]
add_pde(s, pa, va, end, prot) ==
    FoldLeft(LAMBDA r, st :
               LET pa_i == pa + st.va - va
                   r1 == AddEntry("pd", "pt", r, st, pa_i, end)
               IN  IF r1.s.t["pd"][st.i].large THEN r1
                   ELSE [r1 EXCEPT !.s = add_pte(r1.s, pa_i, st.va, end, r1.prot)],
             [s |-> s, prot |-> prot], Steps("pd", va, end)).s
add_pdpte(s, pa, va, end, prot) ==
    FoldLeft(LAMBDA r, st :
               LET pa_i == pa + st.va - va
                   r1 == AddEntry("pdpt", "pd", r, st, pa_i, end)
               IN  IF r1.s.t["pdpt"][st.i].large THEN r1
                   ELSE [r1 EXCEPT !.s = add_pde(r1.s, pa_i, st.va, end, r1.prot)],
             [s |-> s, prot |-> prot], Steps("pdpt", va, end)).s
mmu_add(s, pa, va, size, prot) ==
    LET end == va + size
        Piece(k) == [i |-> k, va |-> IF k * PML4E_SIZE < va THEN va ELSE k * PML4E_SIZE]
        first == va \div PML4E_SIZE
        last == (end - 1) \div PML4E_SIZE
    IN  FoldLeft(LAMBDA r, st :
                   LET r1 == IF pgentry_present(r.t["pml4"][st.i]) THEN r
                             ELSE construct_pgentry(r, "pml4", st.i, "pdpt", st.va)
                   IN  add_pdpte(r1, pa + st.va - va, st.va, end, prot),
                 s, [k \in 1..last - first + 1 |-> Piece(first + k - 1)])

-----------------------------------------------------------------------------
(* mmu_modify_or_del, where change is [set, clr] or NONE to delete.        *)
Changed(e, change) == [e EXCEPT !.prot = (@ \ change.clr) \union change.set]
local_modify_or_del_pte(s, level, i, change) ==
    set_pgentry(s, level, i, IF change = NONE THEN NotPresent ELSE Changed(s.t[level][i], change))

(* Mutant: the large page is replaced before the pages below are there. *)
split_large_pageLinksFirst(s, level, i, va) ==
    LET e == s.t[level][i]
        below == IF level = "pdpt" THEN "pd" ELSE "pt"
        small == [k \in 0..PTRS - 1 |->
                    IF level = "pdpt" THEN LargePage(e.pa + k * PDE_SIZE, e.prot)
                    ELSE Page(e.pa + k * PTE_SIZE, recover_exe_right(e.prot))]
    IN  Fill(set_pgentry(s, level, i, Table(RWX)), below, va, small)
(* split_large_page: the pages below with the rights of the large one, and *)
(* then the entry; pages of 4 KB may be executed.                          *)
split_large_page(s, level, i, va) ==
    LET e == s.t[level][i]
        below == IF level = "pdpt" THEN "pd" ELSE "pt"
        small == [k \in 0..PTRS - 1 |->
                    IF level = "pdpt" THEN LargePage(e.pa + k * PDE_SIZE, e.prot)
                    ELSE Page(e.pa + k * PTE_SIZE, recover_exe_right(e.prot))]
    IN  set_pgentry(Fill(s, below, va, small), level, i, Table(RWX))

modify_or_del_pte(s, va, end, change) ==
    FoldLeft(LAMBDA r, st : IF pgentry_present(r.t["pt"][st.i])
                            THEN local_modify_or_del_pte(r, "pt", st.i, change) ELSE r,
             s, Steps("pt", va, end))
ChangeEntry(level, s, st, end, change) ==
    LET e == s.t[level][st.i] IN
    CASE ~pgentry_present(e) -> s
      [] pgentry_present(e) /\ e.large /\ Whole(level, st, end) -> local_modify_or_del_pte(s, level, st.i, change)
      [] pgentry_present(e) /\ e.large /\ ~Whole(level, st, end) -> split_large_page(s, level, st.i, st.va)
      [] OTHER -> s
Descends(level, s, st, end) ==
    LET e == s.t[level][st.i] IN pgentry_present(e) /\ ~(e.large /\ Whole(level, st, end))
modify_or_del_pde(s, va, end, change) ==
    FoldLeft(LAMBDA r, st :
               LET r1 == ChangeEntry("pd", r, st, end, change) IN
               IF Descends("pd", r, st, end) THEN modify_or_del_pte(r1, st.va, end, change) ELSE r1,
             s, Steps("pd", va, end))
modify_or_del_pdpte(s, va, end, change) ==
    FoldLeft(LAMBDA r, st :
               LET r1 == ChangeEntry("pdpt", r, st, end, change) IN
               IF Descends("pdpt", r, st, end) THEN modify_or_del_pde(r1, st.va, end, change) ELSE r1,
             s, Steps("pdpt", va, end))
mmu_modify_or_del(s, va, size, change) ==
    LET first == va \div PML4E_SIZE
        last == (va + size - 1) \div PML4E_SIZE
    IN  FoldLeft(LAMBDA r, k : modify_or_del_pdpte(r, IF k * PML4E_SIZE < va THEN va ELSE k * PML4E_SIZE,
                                                   va + size, change),
                 s, [k \in 1..last - first + 1 |-> first + k - 1])

-----------------------------------------------------------------------------
(* lookup_address and local_gpa2hpa, and what the hardware does: the       *)
(* mapping of a page, NONE for none.                                       *)
lookup_address(t, a) ==
    LET At(level) == t[level][a \div SizeOf[level]]
        leaf == CASE ~pgentry_present(At("pml4")) \/ ~pgentry_present(At("pdpt")) -> NONE
                  [] At("pdpt").large -> "pdpt"
                  [] OTHER -> CASE ~pgentry_present(At("pd")) -> NONE
                                [] At("pd").large -> "pd"
                                [] OTHER -> IF pgentry_present(At("pt")) THEN "pt" ELSE NONE
    IN  IF leaf = NONE THEN NONE
        ELSE [pa |-> At(leaf).pa + (a % SizeOf[leaf]), prot |-> At(leaf).prot]

InRange(c, a) == a \in c.va..c.va + c.size - 1
Backed(c) == \A k \in c.va \div PML4E_SIZE..(c.va + c.size - 1) \div PML4E_SIZE :
                 pgentry_present(table["pml4"][k])

EptInit ==
    /\ table = [pml4 |-> [i \in 0..1 |-> NotPresent], pdpt |-> [i \in 0..2 * PTRS - 1 |-> NotPresent],
                pd |-> [i \in 0..2 * PDPTE_SIZE - 1 |-> NotPresent], pt |-> [i \in Pages |-> NotPresent]]
    /\ writes = <<>> /\ old = [a \in Pages |-> NONE] /\ new = [a \in Pages |-> NONE]
    /\ caller = [c \in Callers |-> "idle"] /\ tlb = NONE /\ flush = FALSE
    /\ started = FALSE /\ calls = 0

(* A call takes ept_lock.  What it is meant to do is in new.               *)
Locked(c, s, meant) ==
    /\ caller[c] = "idle" /\ \A d \in Callers : caller[d] # "locked"
    /\ calls < MaxCalls /\ calls' = calls + 1
    /\ caller' = [caller EXCEPT ![c] = "locked"]
    /\ writes' = s.w /\ old' = new /\ new' = meant
    /\ UNCHANGED <<table, tlb, flush, started>>
Now == [t |-> table, w |-> <<>>]
ept_add_mr(c) ==
    \E a \in Adds :
        Locked(c, mmu_add(Now, a.pa, a.va, a.size, a.prot),
               [p \in Pages |-> IF InRange(a, p) /\ new[p] = NONE THEN [pa |-> a.pa + p - a.va, prot |-> a.prot]
                                ELSE new[p]])
(* "invalid op, pml4e not present" is a fatal error of the callers.        *)
ept_modify_mr(c) ==
    \E m \in Changes :
        /\ Backed(m)
        /\ Locked(c, mmu_modify_or_del(Now, m.va, m.size, [set |-> m.set, clr |-> m.clr]),
                  [p \in Pages |-> IF InRange(m, p) /\ new[p] # NONE THEN Changed(new[p], m) ELSE new[p]])
(* "[gpa,gpa+size) has been mapped into host physical memory region".      *)
ept_del_mr(c) ==
    \E d \in Dels :
        /\ Backed(d)
        /\ Locked(c, mmu_modify_or_del(Now, d.va, d.size, NONE),
                  [p \in Pages |-> IF InRange(d, p) THEN NONE ELSE new[p]])

(* One entry; with the last one the lock is released.                      *)
write_entry(c) ==
    /\ caller[c] = "locked" /\ writes # <<>>
    /\ LET w == Head(writes) IN table' = [table EXCEPT ![w.level][w.i] = w.e]
    /\ writes' = Tail(writes)
    /\ UNCHANGED <<old, new, caller, tlb, flush, started, calls>>
release(c) ==
    /\ caller[c] = "locked" /\ writes = <<>> /\ old' = new
    /\ caller' = [caller EXCEPT ![c] = "flush"]
    /\ UNCHANGED <<table, writes, new, tlb, flush, started, calls>>
ept_flush_guest(c) ==
    /\ caller[c] = "flush" /\ caller' = [caller EXCEPT ![c] = "idle"] /\ flush' = TRUE
    /\ UNCHANGED <<table, writes, old, new, tlb, started, calls>>

(* The vCPU: a translation gets into its TLB; the request is handled       *)
(* before it enters the guest again.                                       *)
translate ==
    /\ started
    /\ \E a \in Probes : /\ lookup_address(table, a) # NONE
                         /\ tlb' = [va |-> a, map |-> lookup_address(table, a)]
    /\ UNCHANGED <<table, writes, old, new, caller, flush, started, calls>>
invept ==
    /\ started /\ flush /\ flush' = FALSE /\ tlb' = NONE
    /\ UNCHANGED <<table, writes, old, new, caller, started, calls>>

(* A VM is started with some memory.  When it is shut down, only the top   *)
(* level is cleared, and the next VM of that id has the same pages; what   *)
(* the TLB holds under the address of that table stays there, and the new  *)
(* vCPU has no request yet.                                                *)
start_vm ==
    /\ ~started /\ started' = TRUE
    /\ \A c \in Callers : caller[c] = "idle"
    /\ \E a \in Pages : new[a] # NONE
    /\ UNCHANGED <<table, writes, old, new, caller, tlb, flush, calls>>
destroy_ept ==
    /\ started /\ started' = FALSE
    /\ \A c \in Callers : caller[c] = "idle"
    /\ table' = [table EXCEPT !["pml4"] = [i \in DOMAIN @ |-> NotPresent]]
    /\ old' = [a \in Pages |-> NONE] /\ new' = [a \in Pages |-> NONE]
    /\ flush' = FALSE
    /\ UNCHANGED <<writes, caller, tlb, calls>>

EptNext == \/ \E c \in Callers : \/ ept_add_mr(c) \/ ept_modify_mr(c) \/ ept_del_mr(c)
                                 \/ write_entry(c) \/ release(c) \/ ept_flush_guest(c)
           \/ translate \/ invept \/ start_vm \/ destroy_ept
EptSpec == EptInit /\ [][EptNext]_eptvars

-----------------------------------------------------------------------------
(* The same mapping; where no large page may be executed, up to that       *)
(* right, which a page gets and loses with the size of its page.           *)
Same(m, n) == IF m = NONE \/ n = NONE THEN m = n
              ELSE m.pa = n.pa /\ m.prot \ (IF Force4k THEN {"X"} ELSE {}) = n.prot \ (IF Force4k THEN {"X"} ELSE {})

(* At every single write, a page is mapped as it was before the call or as *)
(* it is meant to be after it: pages outside the range keep their address  *)
(* and rights while a large page around them is split, and between calls   *)
(* the four levels say what the calls said.  No large page is executable   *)
(* where that is not allowed.  Once the callers have made their requests,  *)
(* the TLB holds nothing that is not in the table, or is about to be       *)
(* flushed.                                                                *)
LargePages == {table["pdpt"][i] : i \in DOMAIN table["pdpt"]} \union {table["pd"][i] : i \in DOMAIN table["pd"]}
EptInv ==
    /\ \A a \in Pages : LET m == lookup_address(table, a) IN Same(m, old[a]) \/ Same(m, new[a])
    /\ writes = <<>> => \A a \in Pages : Same(lookup_address(table, a), new[a])
    /\ Force4k => \A e \in LargePages : e.large => "X" \notin e.prot
    /\ started /\ tlb # NONE =>
                     \/ flush \/ \E c \in Callers : caller[c] # "idle"
                     \/ tlb.map = lookup_address(table, tlb.va)
=============================================================================

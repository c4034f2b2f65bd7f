------------------------------- MODULE Pagedir -------------------------------
(***************************************************************************)
(* The bits of page table entries and the translation lookaside buffer     *)
(* (userprog/pagedir.c).  Every thread has a page directory; a thread in   *)
(* the kernel may change entries of any of them, those of the directory    *)
(* that is active included.  The processor sets the accessed and dirty     *)
(* bits when it walks the tables, and skips the walk for a page it holds   *)
(* in the buffer.  A change of an entry and the invalidation that follows  *)
(* it are two steps: the timer may switch threads between them.            *)
(***************************************************************************)
EXTENDS TLAPS

CONSTANTS
  Threads,   \* threads, each with a directory of its own
  UserPages  \* user virtual pages

VARIABLES
  cur,     \* the running thread, whose directory is active
  pte,     \* directory, page -> the bits that are set in the entry
  tlb,     \* page -> "no", "clean" or "dirty": what the buffer holds
  flush,   \* thread -> the directory, if any, that it is to call invalidate_pagedir() for
  touched, \* directory, page: accessed since PTE_A was last cleared
  written  \* directory, page: written since PTE_D was last cleared

pagedirVars == <<cur, pte, tlb, flush, touched, written>>
Bits == {"PTE_P", "PTE_A", "PTE_D"}
NoTlb == [v \in UserPages |-> "no"]
Nothing == [pd \in Threads |-> {}]

PagedirInit ==
  /\ cur \in Threads
  /\ pte = [pd \in Threads |-> [v \in UserPages |-> {}]]
  /\ tlb = NoTlb
  /\ flush = Nothing
  /\ touched = Nothing
  /\ written = Nothing

Ready == flush[cur] = {}

(* pagedir_set_page(): only for a page that is not present.                *)
pagedir_set_page(pd, v) ==
  /\ Ready
  /\ "PTE_P" \notin pte[pd][v]
  /\ pte' = [pte EXCEPT ![pd][v] = {"PTE_P"}]
  /\ touched' = [touched EXCEPT ![pd] = @ \ {v}]
  /\ written' = [written EXCEPT ![pd] = @ \ {v}]
  /\ UNCHANGED <<cur, tlb, flush>>

MutClearNoFlush(pd, v) ==
  /\ Ready
  /\ "PTE_P" \in pte[pd][v]
  /\ pte' = [pte EXCEPT ![pd][v] = @ \ {"PTE_P"}]
  /\ UNCHANGED <<cur, tlb, flush, touched, written>>

(* pagedir_clear_page(): the other bits stay.                              *)
pagedir_clear_page(pd, v) ==
  /\ Ready
  /\ "PTE_P" \in pte[pd][v]
  /\ pte' = [pte EXCEPT ![pd][v] = @ \ {"PTE_P"}]
  /\ flush' = [flush EXCEPT ![cur] = {pd}]
  /\ UNCHANGED <<cur, tlb, touched, written>>

(* pagedir_set_dirty(): only clearing the bit needs the buffer emptied.    *)
pagedir_set_dirty(pd, v, dirty) ==
  /\ Ready
  /\ pte' = [pte EXCEPT ![pd][v] = IF dirty THEN @ \cup {"PTE_D"} ELSE @ \ {"PTE_D"}]
  /\ flush' = IF dirty THEN flush ELSE [flush EXCEPT ![cur] = {pd}]
  /\ written' = IF dirty THEN written ELSE [written EXCEPT ![pd] = @ \ {v}]
  /\ UNCHANGED <<cur, tlb, touched>>

pagedir_set_accessed(pd, v, accessed) ==
  /\ Ready
  /\ pte' = [pte EXCEPT ![pd][v] = IF accessed THEN @ \cup {"PTE_A"} ELSE @ \ {"PTE_A"}]
  /\ flush' = IF accessed THEN flush ELSE [flush EXCEPT ![cur] = {pd}]
  /\ touched' = IF accessed THEN touched ELSE [touched EXCEPT ![pd] = @ \ {v}]
  /\ UNCHANGED <<cur, tlb, written>>

(* invalidate_pagedir(): activates the directory anew when it is the       *)
(* active one.                                                             *)
invalidate_pagedir ==
  /\ ~Ready
  /\ flush' = [flush EXCEPT ![cur] = {}]
  /\ tlb' = IF cur \in flush[cur] THEN NoTlb ELSE tlb
  /\ UNCHANGED <<cur, pte, touched, written>>

(* A switch of threads ends in pagedir_activate(): loading CR3 empties the *)
(* buffer.                                                                 *)
pagedir_activate(t) ==
  /\ cur' = t
  /\ tlb' = NoTlb
  /\ UNCHANGED <<pte, flush, touched, written>>

(* The processor reads or writes page v for the running thread.  A page in *)
(* the buffer is not looked up; a first write to it sets the dirty bit in  *)
(* the table.  A page that is not present faults.                          *)
Access(v, write) ==
  /\ Ready
  /\ tlb[v] # "no" \/ "PTE_P" \in pte[cur][v]
  /\ pte' = [pte EXCEPT ![cur][v] = @ \cup (IF tlb[v] = "no" THEN {"PTE_A"} ELSE {})
                                      \cup (IF write /\ tlb[v] # "dirty" THEN {"PTE_D"} ELSE {})]
  /\ tlb' = [tlb EXCEPT ![v] = IF write \/ @ = "dirty" THEN "dirty"
                               ELSE IF @ = "no" /\ "PTE_D" \in pte[cur][v] THEN "dirty"
                               ELSE "clean"]
  /\ touched' = [touched EXCEPT ![cur] = @ \cup {v}]
  /\ written' = IF write THEN [written EXCEPT ![cur] = @ \cup {v}] ELSE written
  /\ UNCHANGED <<cur, flush>>

PagedirNext ==
  \/ \E pd \in Threads, v \in UserPages :
       \/ pagedir_set_page(pd, v)
       \/ pagedir_clear_page(pd, v)
       \/ \E b \in BOOLEAN : pagedir_set_dirty(pd, v, b) \/ pagedir_set_accessed(pd, v, b)
  \/ invalidate_pagedir
  \/ \E t \in Threads : pagedir_activate(t)
  \/ \E v \in UserPages, write \in BOOLEAN : Access(v, write)

PagedirSpec == PagedirInit /\ [][PagedirNext]_pagedirVars

-----------------------------------------------------------------------------
(* The variables have their types, and the buffer marks a page as dirty    *)
(* only if the entry is.                                                   *)
PagedirTypeOK ==
  /\ cur \in Threads
  /\ pte \in [Threads -> [UserPages -> SUBSET Bits]]
  /\ tlb \in [UserPages -> {"no", "clean", "dirty"}]
  /\ flush \in [Threads -> SUBSET Threads]
  /\ touched \in [Threads -> SUBSET UserPages] /\ written \in [Threads -> SUBSET UserPages]
  /\ Ready => \A v \in UserPages : tlb[v] = "dirty" => "PTE_D" \in pte[cur][v]

(* A thread that runs user code reaches no page through the buffer that    *)
(* its directory no longer has.                                            *)
NoStaleTranslation == Ready => \A v \in UserPages : tlb[v] # "no" => "PTE_P" \in pte[cur][v]

(* pagedir_is_dirty() is true of a page written since the bit was last     *)
(* cleared, also after the page was made not present.                      *)
DirtyKnown == \A pd \in Threads : \A v \in written[pd] : "PTE_D" \in pte[pd][v]

(* pagedir_is_accessed() is true of a page accessed since the bit was last *)
(* cleared.                                                                *)
AccessedKnown == \A pd \in Threads : \A v \in touched[pd] : "PTE_A" \in pte[pd][v]

(* The kernel's view of pages agrees with what programs do to them.        *)
TranslationsSound == PagedirTypeOK /\ NoStaleTranslation /\ DirtyKnown /\ AccessedKnown

(* What the proof needs beyond it: the buffer agrees with the active       *)
(* directory also in the kernel, unless that directory is the one that     *)
(* waits to be invalidated.                                                *)
Coherent ==
  cur \notin flush[cur] =>
    \A v \in UserPages : /\ tlb[v] # "no" => "PTE_P" \in pte[cur][v] /\ "PTE_A" \in pte[cur][v]
                         /\ tlb[v] = "dirty" => "PTE_D" \in pte[cur][v]

PagedirIInv == PagedirTypeOK /\ Coherent /\ DirtyKnown /\ AccessedKnown

-----------------------------------------------------------------------------
(* Time limits of the provers.                                             *)
USE SMTT(10), ZenonT(20)

(* Initially no page is present and the buffer is empty.                   *)
LEMMA PagedirInitIInv == PagedirInit => PagedirIInv
BY DEF PagedirInit, PagedirIInv, PagedirTypeOK, Coherent, DirtyKnown, AccessedKnown, Ready, NoTlb,
       Nothing

(* An entry changes, in the active directory or in another; bits that are  *)
(* cleared are not relied on, or the directory is to be invalidated.       *)
LEMMA EntryChanges ==
  ASSUME PagedirIInv, NEW pd \in Threads, NEW v \in UserPages, NEW e \in SUBSET Bits,
         Ready, UNCHANGED <<cur, tlb>>,
         pte' = [pte EXCEPT ![pd][v] = e],
         \/ UNCHANGED flush /\ (tlb[v] # "no" /\ pd = cur => pte[pd][v] \subseteq e)
         \/ flush' = [flush EXCEPT ![cur] = {pd}],
         touched' \in [Threads -> SUBSET UserPages], written' \in [Threads -> SUBSET UserPages],
         \A q \in Threads : touched'[q] \subseteq touched[q] /\ written'[q] \subseteq written[q],
         v \in touched'[pd] => ("PTE_A" \in pte[pd][v] => "PTE_A" \in e),
         v \in written'[pd] => ("PTE_D" \in pte[pd][v] => "PTE_D" \in e)
  PROVE  PagedirIInv'
<1>0. /\ cur \in Threads /\ flush[cur] = {}
      /\ pte \in [Threads -> [UserPages -> SUBSET Bits]]
      /\ flush \in [Threads -> SUBSET Threads]
  BY DEF PagedirIInv, PagedirTypeOK, Ready
<1>1. pte' \in [Threads -> [UserPages -> SUBSET Bits]]
  BY <1>0
<1>2. /\ pte'[pd][v] = e
      /\ \A q \in Threads, w \in UserPages : q # pd \/ w # v => pte'[q][w] = pte[q][w]
  BY <1>0
<1>3. /\ flush' \in [Threads -> SUBSET Threads]
      /\ \/ UNCHANGED flush /\ (tlb[v] # "no" /\ pd = cur => pte[pd][v] \subseteq e)
         \/ flush'[cur] = {pd}
  <2>1. CASE flush' = [flush EXCEPT ![cur] = {pd}]
    <3>1. {pd} \in SUBSET Threads
      OBVIOUS
    <3> QED BY Zenon, <1>0, <2>1, <3>1
  <2> QED BY Zenon, <1>0, <2>1
<1>4. Coherent'
  <2>1. CASE pd = cur /\ flush'[cur] = {pd}
    BY <2>1 DEF Coherent
  <2>2. CASE pd # cur
    BY <1>0, <1>2, <2>2 DEF PagedirIInv, Coherent
  <2>3. CASE pd = cur /\ UNCHANGED flush /\ (tlb[v] # "no" => pte[pd][v] \subseteq e)
    BY <1>0, <1>2, <2>3 DEF PagedirIInv, Coherent
  <2> QED BY <1>3, <2>1, <2>2, <2>3
<1>5. PagedirTypeOK'
  BY <1>0, <1>1, <1>3, <1>4 DEF PagedirIInv, PagedirTypeOK, Ready, Coherent
<1>6. DirtyKnown'
  BY <1>2 DEF PagedirIInv, DirtyKnown
<1>7. AccessedKnown'
  BY <1>2 DEF PagedirIInv, AccessedKnown
<1> QED BY <1>4, <1>5, <1>6, <1>7 DEF PagedirIInv

(* The processor accesses a page.                                          *)
LEMMA AccessIInv ==
  ASSUME PagedirIInv, NEW v \in UserPages, NEW write \in BOOLEAN, Access(v, write)
  PROVE  PagedirIInv'
<1>0. /\ cur \in Threads /\ flush[cur] = {} /\ cur' = cur /\ flush' = flush
      /\ pte \in [Threads -> [UserPages -> SUBSET Bits]]
      /\ tlb \in [UserPages -> {"no", "clean", "dirty"}]
      /\ touched \in [Threads -> SUBSET UserPages] /\ written \in [Threads -> SUBSET UserPages]
  BY DEF PagedirIInv, PagedirTypeOK, Access, Ready
<1>1. \A w \in UserPages : /\ tlb[w] # "no" => "PTE_P" \in pte[cur][w] /\ "PTE_A" \in pte[cur][w]
                           /\ tlb[w] = "dirty" => "PTE_D" \in pte[cur][w]
  BY <1>0 DEF PagedirIInv, Coherent
<1> DEFINE e == pte[cur][v] \cup (IF tlb[v] = "no" THEN {"PTE_A"} ELSE {})
                            \cup (IF write /\ tlb[v] # "dirty" THEN {"PTE_D"} ELSE {})
<1>2. pte' = [pte EXCEPT ![cur][v] = e]
  BY DEF Access
<1>3. /\ e \in SUBSET Bits /\ "PTE_P" \in e /\ "PTE_A" \in e /\ (write => "PTE_D" \in e)
      /\ pte[cur][v] \subseteq e
  BY <1>0, <1>1 DEF Access, Bits
<1> HIDE DEF e
<1>4. /\ pte' \in [Threads -> [UserPages -> SUBSET Bits]]
      /\ pte'[cur][v] = e
      /\ \A q \in Threads, w \in UserPages : q # cur \/ w # v => pte'[q][w] = pte[q][w]
  BY <1>0, <1>2, <1>3
<1>5. /\ tlb' \in [UserPages -> {"no", "clean", "dirty"}]
      /\ \A w \in UserPages : w # v => tlb'[w] = tlb[w]
      /\ tlb'[v] = "dirty" => write \/ "PTE_D" \in pte[cur][v]
  BY <1>0, <1>1 DEF Access
<1>6. /\ touched' \in [Threads -> SUBSET UserPages] /\ written' \in [Threads -> SUBSET UserPages]
      /\ \A q \in Threads, w \in UserPages : q # cur \/ w # v =>
           (w \in touched'[q] => w \in touched[q]) /\ (w \in written'[q] => w \in written[q])
      /\ v \in written'[cur] => write \/ v \in written[cur]
  BY <1>0 DEF Access
<1>7. Coherent'
  BY <1>0, <1>1, <1>3, <1>4, <1>5 DEF Coherent
<1>8. PagedirTypeOK'
  BY <1>0, <1>4, <1>5, <1>6, <1>7 DEF PagedirIInv, PagedirTypeOK, Ready, Coherent
<1>9. DirtyKnown'
  BY <1>0, <1>3, <1>4, <1>6 DEF PagedirIInv, DirtyKnown
<1>10. AccessedKnown'
  BY <1>0, <1>3, <1>4, <1>6 DEF PagedirIInv, AccessedKnown
<1> QED BY <1>7, <1>8, <1>9, <1>10 DEF PagedirIInv

(* Every step keeps the invariant.                                         *)
LEMMA PagedirNextIInv == PagedirIInv /\ [PagedirNext]_pagedirVars => PagedirIInv'
<1> SUFFICES ASSUME PagedirIInv, [PagedirNext]_pagedirVars PROVE PagedirIInv'
  OBVIOUS
<1>0. /\ cur \in Threads
      /\ pte \in [Threads -> [UserPages -> SUBSET Bits]]
      /\ flush \in [Threads -> SUBSET Threads]
      /\ touched \in [Threads -> SUBSET UserPages] /\ written \in [Threads -> SUBSET UserPages]
  BY DEF PagedirIInv, PagedirTypeOK
<1>1. ASSUME NEW pd \in Threads, NEW v \in UserPages, pagedir_set_page(pd, v)
      PROVE  PagedirIInv'
  <2>1. tlb[v] # "no" => pd # cur
    BY <1>1 DEF pagedir_set_page, PagedirIInv, Coherent, Ready
  <2>2. {"PTE_P"} \in SUBSET Bits
    BY DEF Bits
  <2>3. /\ touched' \in [Threads -> SUBSET UserPages] /\ written' \in [Threads -> SUBSET UserPages]
        /\ \A q \in Threads : touched'[q] \subseteq touched[q] /\ written'[q] \subseteq written[q]
        /\ v \notin touched'[pd] /\ v \notin written'[pd]
    BY <1>0, <1>1 DEF pagedir_set_page
  <2> QED BY <1>0, <1>1, <2>1, <2>2, <2>3, EntryChanges DEF pagedir_set_page
<1>2. ASSUME NEW pd \in Threads, NEW v \in UserPages, pagedir_clear_page(pd, v)
      PROVE  PagedirIInv'
  <2>1. pte[pd][v] \ {"PTE_P"} \in SUBSET Bits
    BY <1>0
  <2>2. \A b \in {"PTE_A", "PTE_D"} : b \in pte[pd][v] => b \in pte[pd][v] \ {"PTE_P"}
    OBVIOUS
  <2> QED BY <1>0, <1>2, <2>1, <2>2, EntryChanges DEF pagedir_clear_page
<1>3. ASSUME NEW pd \in Threads, NEW v \in UserPages, NEW b \in BOOLEAN, pagedir_set_dirty(pd, v, b)
      PROVE  PagedirIInv'
  <2> DEFINE e == IF b THEN pte[pd][v] \cup {"PTE_D"} ELSE pte[pd][v] \ {"PTE_D"}
  <2>1. /\ e \in SUBSET Bits /\ ("PTE_A" \in pte[pd][v] => "PTE_A" \in e)
        /\ b => pte[pd][v] \subseteq e
    BY <1>0 DEF Bits
  <2>2. pte' = [pte EXCEPT ![pd][v] = e]
    BY <1>3 DEF pagedir_set_dirty
  <2>3. /\ written' \in [Threads -> SUBSET UserPages]
        /\ \A q \in Threads : written'[q] \subseteq written[q]
        /\ ~b => v \notin written'[pd]
    BY <1>0, <1>3 DEF pagedir_set_dirty
  <2> HIDE DEF e
  <2> QED BY <1>0, <1>3, <2>1, <2>2, <2>3, EntryChanges DEF pagedir_set_dirty
<1>4. ASSUME NEW pd \in Threads, NEW v \in UserPages, NEW b \in BOOLEAN, pagedir_set_accessed(pd, v, b)
      PROVE  PagedirIInv'
  <2> DEFINE e == IF b THEN pte[pd][v] \cup {"PTE_A"} ELSE pte[pd][v] \ {"PTE_A"}
  <2>1. /\ e \in SUBSET Bits /\ ("PTE_D" \in pte[pd][v] => "PTE_D" \in e)
        /\ b => pte[pd][v] \subseteq e
    BY <1>0 DEF Bits
  <2>2. pte' = [pte EXCEPT ![pd][v] = e]
    BY <1>4 DEF pagedir_set_accessed
  <2>3. /\ touched' \in [Threads -> SUBSET UserPages]
        /\ \A q \in Threads : touched'[q] \subseteq touched[q]
        /\ ~b => v \notin touched'[pd]
    BY <1>0, <1>4 DEF pagedir_set_accessed
  <2> HIDE DEF e
  <2> QED BY <1>0, <1>4, <2>1, <2>2, <2>3, EntryChanges DEF pagedir_set_accessed
<1>5. CASE invalidate_pagedir
  <2>1. Coherent'
    BY <1>0, <1>5 DEF invalidate_pagedir, PagedirIInv, Coherent, NoTlb
  <2> QED BY <1>5, <2>1 DEF invalidate_pagedir, PagedirIInv, PagedirTypeOK, Coherent,
                          DirtyKnown, AccessedKnown, Ready, NoTlb
<1>6. ASSUME NEW t \in Threads, pagedir_activate(t)
      PROVE  PagedirIInv'
  BY <1>6 DEF pagedir_activate, PagedirIInv, PagedirTypeOK, Coherent, DirtyKnown, AccessedKnown, NoTlb
<1>7. ASSUME NEW v \in UserPages, NEW write \in BOOLEAN, Access(v, write)
      PROVE  PagedirIInv'
  BY <1>7, AccessIInv
<1>8. CASE UNCHANGED pagedirVars
  BY <1>8 DEF pagedirVars, PagedirIInv, PagedirTypeOK, Coherent, DirtyKnown, AccessedKnown, Ready
<1> QED BY <1>1, <1>2, <1>3, <1>4, <1>5, <1>6, <1>7, <1>8 DEF PagedirNext

(* For any number of threads and pages: no stale translation is used, and  *)
(* the dirty and accessed bits, which pagedir.c clears under programs that *)
(* run, never miss a write or an access, although an entry and the buffer  *)
(* are changed in two steps that a switch of threads may come between.     *)
THEOREM PagesKnown == PagedirSpec => []TranslationsSound
<1>1. PagedirIInv => TranslationsSound
  BY DEF PagedirIInv, TranslationsSound, Coherent, NoStaleTranslation, Ready
<1> QED BY PagedirInitIInv, PagedirNextIInv, <1>1, PTL DEF PagedirSpec
=============================================================================

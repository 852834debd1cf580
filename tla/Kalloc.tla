------------------------------- MODULE Kalloc -------------------------------
(***************************************************************************)
(* kernel/kalloc.c: the free list of physical pages.  kalloc() and         *)
(* countpages() hold kmem.lock; kfree() takes no lock, since its acquire   *)
(* and release are commented out.  Each step is one access to kmem or to a *)
(* page's first word, as the compiler emits them (kernel.asm, kfree: one   *)
(* load of the head, one store into the page, one store of the head).      *)
(***************************************************************************)
EXTENDS Integers, FiniteSets

CONSTANTS
  NPAGES,       \* pages between `end' and PHYSTOP
  CPUs,
  Freers,       \* CPUs whose processes free pages
  NoCpu         \* "kmem.lock not held"

Pages == 1..NPAGES
Null == 0
Junk == NPAGES + 1      \* a word memset() or the page's user has written

ASSUME KallocConstants ==
  /\ NPAGES \in Nat \ {0}
  /\ Freers \subseteq CPUs
  /\ NoCpu \notin CPUs

VARIABLES
  freelist,     \* kmem.freelist
  next,         \* the first word of each page, r->next while it is free
  lock,         \* owner of kmem.lock
  pc, r, n,     \* per CPU: place, `r', a loaded pointer
  count,        \* countpages(): count
  held,         \* pages that kalloc() gave to code on this CPU
  result        \* what the last countpages() returned, -1 before it

vars == <<freelist, next, lock, pc, r, n, count, held, result>>

(* The pages a walk from kmem.freelist meets. *)
FreePages ==
  LET at[i \in 0..NPAGES] ==
        IF i = 0 THEN freelist
        ELSE IF at[i - 1] \in Pages THEN next[at[i - 1]] ELSE at[i - 1]
  IN {at[i] : i \in 0..NPAGES} \cap Pages

Words == Pages \cup {Null, Junk}

(* In particular kmem.freelist never holds junk. *)
TypeOK ==
  /\ freelist \in Pages \cup {Null}
  /\ next \in [Pages -> Words]
  /\ lock \in CPUs \cup {NoCpu}
  /\ pc \in [CPUs -> {"idle", "link", "push", "head", "next", "pop", "fill",
                      "count", "fault"}]
  /\ r \in [CPUs -> Words]
  /\ n \in [CPUs -> Words]
  /\ count \in [CPUs -> Nat]
  /\ held \in [CPUs -> SUBSET Pages]
  /\ result \in [CPUs -> Nat \cup {-1}]

-----------------------------------------------------------------------------
Goto(c, place) == pc' = [pc EXCEPT ![c] = place]

(* kfree(pa): pa is a page its caller holds.  memset(pa, 1, PGSIZE). *)
kfree(c) ==
  /\ pc[c] = "idle"
  /\ c \in Freers
  /\ \E p \in held[c] :
       /\ held' = [held EXCEPT ![c] = @ \ {p}]
       /\ next' = [next EXCEPT ![p] = Junk]
       /\ r' = [r EXCEPT ![c] = p]
  /\ Goto(c, "link")
  /\ UNCHANGED <<freelist, lock, n, count, result>>

Linked_Unset(c) == next

Linked(c) == [next EXCEPT ![r[c]] = freelist]

(* r->next = kmem.freelist *)
kfree_link(c) ==
  /\ pc[c] = "link"
  /\ next' = Linked(c)
  /\ Goto(c, "push")
  /\ UNCHANGED <<freelist, lock, r, n, count, held, result>>

(* kmem.freelist = r *)
kfree_push(c) ==
  /\ pc[c] = "push"
  /\ freelist' = r[c]
  /\ Goto(c, "idle")
  /\ UNCHANGED <<next, lock, r, n, count, held, result>>

-----------------------------------------------------------------------------
(* acquire(&kmem.lock) *)
MayEnter(c) == lock = NoCpu

kalloc(c) ==
  /\ pc[c] = "idle"
  /\ MayEnter(c)
  /\ lock' = c
  /\ Goto(c, "head")
  /\ UNCHANGED <<freelist, next, r, n, count, held, result>>

(* r = kmem.freelist; the list may be empty. *)
kalloc_head(c) ==
  /\ pc[c] = "head"
  /\ r' = [r EXCEPT ![c] = freelist]
  /\ IF freelist = Null
     THEN lock' = NoCpu /\ Goto(c, "idle")
     ELSE UNCHANGED lock /\ Goto(c, "next")
  /\ UNCHANGED <<freelist, next, n, count, held, result>>

(* Loads r->next; a word that is no page's address faults. *)
kalloc_next(c) ==
  /\ pc[c] = "next"
  /\ IF r[c] \in Pages
     THEN n' = [n EXCEPT ![c] = next[r[c]]] /\ Goto(c, "pop")
     ELSE Goto(c, "fault") /\ UNCHANGED n
  /\ UNCHANGED <<freelist, next, lock, r, count, held, result>>

Popped(c) == n[c]

(* kmem.freelist = r->next; release(&kmem.lock) *)
kalloc_pop(c) ==
  /\ pc[c] = "pop"
  /\ freelist' = Popped(c)
  /\ lock' = NoCpu
  /\ Goto(c, "fill")
  /\ UNCHANGED <<next, r, n, count, held, result>>

(* memset(r, 5, PGSIZE); the page is the caller's. *)
kalloc_fill(c) ==
  /\ pc[c] = "fill"
  /\ next' = [next EXCEPT ![r[c]] = Junk]
  /\ held' = [held EXCEPT ![c] = @ \cup {r[c]}]
  /\ Goto(c, "idle")
  /\ UNCHANGED <<freelist, lock, r, n, count, result>>

-----------------------------------------------------------------------------
countpages(c) ==
  /\ pc[c] = "idle"
  /\ MayEnter(c)
  /\ lock' = c
  /\ r' = [r EXCEPT ![c] = freelist]
  /\ count' = [count EXCEPT ![c] = 0]
  /\ Goto(c, "count")
  /\ UNCHANGED <<freelist, next, n, held, result>>

AtEnd(c) == r[c] = Null

(* One turn of the loop, or its end. *)
countpages_loop(c) ==
  /\ pc[c] = "count"
  /\ IF AtEnd(c)
     THEN /\ result' = [result EXCEPT ![c] = count[c]]
          /\ lock' = NoCpu
          /\ Goto(c, "idle")
          /\ UNCHANGED <<r, count>>
     ELSE /\ count' = [count EXCEPT ![c] = @ + 1]
          /\ IF r[c] \in Pages
             THEN r' = [r EXCEPT ![c] = next[r[c]]] /\ UNCHANGED pc
             ELSE Goto(c, "fault") /\ UNCHANGED r
          /\ UNCHANGED <<lock, result>>
  /\ UNCHANGED <<freelist, next, n, held>>

-----------------------------------------------------------------------------
(* kinit(): freerange() freed the pages in the order of their addresses. *)
Init ==
  /\ freelist = NPAGES
  /\ next = [p \in Pages |-> p - 1]
  /\ lock = NoCpu
  /\ pc = [c \in CPUs |-> "idle"]
  /\ r = [c \in CPUs |-> Null]
  /\ n = [c \in CPUs |-> Null]
  /\ count = [c \in CPUs |-> 0]
  /\ held = [c \in CPUs |-> {}]
  /\ result = [c \in CPUs |-> -1]

Next ==
  \E c \in CPUs :
    \/ kfree(c) \/ kfree_link(c) \/ kfree_push(c)
    \/ kalloc(c) \/ kalloc_head(c) \/ kalloc_next(c) \/ kalloc_pop(c) \/ kalloc_fill(c)
    \/ countpages(c) \/ countpages_loop(c)

Spec == Init /\ [][Next]_vars

-----------------------------------------------------------------------------
(* The page a CPU is between taking off the list and handing out, or        *)
(* between taking back and putting on the list.                             *)
InHand(c) == IF pc[c] \in {"fill", "link", "push"} THEN {r[c]} \cap Pages ELSE {}

(* A page is never in two hands, nor in a hand and on the free list:        *)
(* kalloc() gives out no page that is still in use.                         *)
PagesExclusive ==
  /\ \A c \in CPUs : (held[c] \cup InHand(c)) \cap FreePages = {}
  /\ \A c, d \in CPUs : c # d =>
       (held[c] \cup InHand(c)) \cap (held[d] \cup InHand(d)) = {}

(* No page is lost: each is free, held or in hand.                          *)
NoPageLost ==
  FreePages \cup UNION {held[c] \cup InHand(c) : c \in CPUs} = Pages

(* Where its walk ends, countpages() has counted the free pages; that is    *)
(* what sys_getmem() reports.                                               *)
CountIsExact ==
  \A c \in CPUs : pc[c] = "count" /\ r[c] = Null => count[c] = Cardinality(FreePages)

(* kalloc() and kfree() keep every page in exactly one place, and countpages()  *)
(* counts the free ones.                                                      *)
PagesKept == TypeOK /\ PagesExclusive /\ NoPageLost /\ CountIsExact
=============================================================================

--------------------------------- MODULE Vm ---------------------------------
(***************************************************************************)
(* kernel/vm.c with its users: proc_pagetable(), growproc(), fork() and    *)
(* freeproc() of kernel/proc.c, exec() of kernel/exec.c and sys_exec().    *)
(*                                                                         *)
(* Page tables have Sv39's three levels, with NPTE entries a page for 512; *)
(* sizes and addresses are in units of which a page has PGSIZE.            *)
(* Physical pages are alike, so kalloc() and kfree() count them: a page    *)
(* that is lost, freed twice or mapped twice shows in the sum.  exec() and *)
(* fork() give way to other processes between steps.                       *)
(***************************************************************************)
EXTENDS Integers, FiniteSets, Sequences, SequencesExt, TLC

CONSTANTS
  NPROC,
  NPAGES,       \* physical pages
  NPTE,         \* entries of a page-table page
  PGSIZE,
  USERSTACK,    \* pages of a user stack
  MAXARG,
  Images,       \* what executables hold: sequences of program headers
  Grow,         \* arguments of sbrk()
  UINT          \* sizes wrap at UINT, for 2^64

MAXVA == NPTE * NPTE * NPTE     \* in pages, like TRAMPOLINE and TRAPFRAME
TRAMPOLINE == MAXVA - 1
TRAPFRAME == TRAMPOLINE - 1
initproc == 1
User == 0..(TRAPFRAME - 1)
Slots == 1..NPROC

(* Too little memory to fill the user part of an address space. *)
ASSUME VmConstants ==
  /\ {NPROC, PGSIZE, USERSTACK} \subseteq Nat \ {0}
  /\ NPAGES \in 1..TRAPFRAME
  /\ UINT > MAXVA * PGSIZE

VARIABLES
  free,         \* the number of pages on kmem.freelist
  proc,         \* per slot: state, trapframe, pagetable, sz, sys_exec()'s argv
                \* pages, exec()'s new pagetable and sz and headers to load;
                \* guard remembers the page that uvmclear() marked
  panicked

vars == <<free, proc, panicked>>

NoTable == [root |-> 0, dirs |-> {}, leaf |-> <<>>]

NoGuard == MAXVA

Unused ==
  [st |-> "unused", tf |-> 0, t |-> NoTable, sz |-> 0, argv |-> 0,
   new |-> NoTable, newsz |-> 0, img |-> <<>>, guard |-> NoGuard]

-----------------------------------------------------------------------------
(* Functions of vm.c map a record of free, a page table t, whether they      *)
(* succeed and whether they panic to another.                                *)
With(n, t) == [free |-> n, t |-> t, ok |-> TRUE, panic |-> FALSE]

On(t) == With(free, t)

Panic(s) == [s EXCEPT !.panic = TRUE, !.ok = FALSE]

Fail(s) == [s EXCEPT !.ok = FALSE]

PGROUNDUP(sz) == (sz + PGSIZE - 1) \div PGSIZE       \* in pages

PGROUNDDOWN(va) == va \div PGSIZE

PageSeq(first, end) == [k \in 1..(end - first) |-> first + k - 1]

Leaf(u, w, x) == [u |-> u, w |-> w, x |-> x]

(* The page-table page for key, allocated when missing. *)
Entry(s, key) ==
  IF ~s.ok \/ key \in s.t.dirs THEN s
  ELSE IF s.free = 0 THEN Fail(s)
  ELSE [s EXCEPT !.free = @ - 1, !.t.dirs = @ \cup {key}]

(* walk(alloc = 1): pages of level 1 and level 0 on the way to va. *)
walk(s, va) ==
  IF va >= MAXVA THEN Panic(s)
  ELSE Entry(Entry(s, <<1, va \div (NPTE * NPTE)>>), <<0, va \div NPTE>>)

(* mappages() of one page. *)
mappages(s, va, perm) ==
  LET w == walk(s, va) IN
  IF ~w.ok THEN w
  ELSE IF va \in DOMAIN w.t.leaf THEN Panic(w)      \* remap
  ELSE [w EXCEPT !.t.leaf = (va :> perm) @@ @]

(* uvmunmap() of the pages from first up to end; panics where one is missing. *)
uvmunmap(s, first, end, do_free) ==
  LET pages == first..(end - 1) IN
  IF pages \subseteq DOMAIN s.t.leaf
  THEN [s EXCEPT !.free = @ + (IF do_free THEN Cardinality(pages) ELSE 0),
                 !.t.leaf = [va \in DOMAIN @ \ pages |-> @[va]]]
  ELSE Panic(s)

uvmdealloc_Rounds(s, oldsz, newsz) ==
  IF newsz >= oldsz THEN s
  ELSE uvmunmap(s, PGROUNDDOWN(newsz), PGROUNDUP(oldsz), TRUE)

uvmdealloc(s, oldsz, newsz) ==
  IF newsz >= oldsz THEN s
  ELSE uvmunmap(s, PGROUNDUP(newsz), PGROUNDUP(oldsz), TRUE)

(* A page for the address space: taken, mapped, or given back.  A failure    *)
(* undoes the pages mapped since first.                                      *)
NewPage(s, a, perm, first) ==
  LET r == mappages([s EXCEPT !.free = @ - 1], a, perm) IN
  IF ~s.ok THEN s
  ELSE IF s.free = 0 THEN Fail(uvmunmap(s, first, a, TRUE))
  ELSE IF r.ok \/ r.panic THEN r
  ELSE Fail(uvmunmap([r EXCEPT !.free = @ + 1], first, a, TRUE))

uvmalloc(s, oldsz, newsz, perm) ==
  LET first == PGROUNDUP(oldsz) IN
  IF newsz < oldsz THEN s
  ELSE FoldLeft(LAMBDA r, a : NewPage(r, a, perm, first), s,
                PageSeq(first, PGROUNDUP(newsz)))

(* What uvmalloc() returns when it succeeds. *)
Grown(oldsz, newsz) == IF newsz < oldsz THEN oldsz ELSE newsz

CopyPerm_Open(perm) == Leaf(TRUE, perm.w, perm.x)

(* flags of a copied page *)
CopyPerm(perm) == perm

uvmcopy(s, old, sz) ==
  IF \E a \in 0..(PGROUNDUP(sz) - 1) : a \notin DOMAIN old.leaf
  THEN Panic(s)
  ELSE FoldLeft(LAMBDA r, a : NewPage(r, a, CopyPerm(old.leaf[a]), 0), s,
                PageSeq(0, PGROUNDUP(sz)))

freewalk(s) ==
  IF DOMAIN s.t.leaf # {} THEN Panic(s)
  ELSE [s EXCEPT !.free = @ + s.t.root + Cardinality(s.t.dirs), !.t = NoTable]

uvmfree(s, sz) ==
  LET r == uvmunmap(s, 0, PGROUNDUP(sz), TRUE) IN
  IF r.panic THEN r ELSE freewalk(r)

(* Marks the guard page. *)
uvmclear(s, va) ==
  IF va \in DOMAIN s.t.leaf THEN [s EXCEPT !.t.leaf[va].u = FALSE] ELSE Panic(s)

walkaddr(t, va) == va \in DOMAIN t.leaf /\ t.leaf[va].u

-----------------------------------------------------------------------------
(* copyout(), copyin() and copyinstr() take what they need of one page and   *)
(* go on with the next; null is how far from srcva the string ends.          *)
InPage(va, len) == Min({PGSIZE - (va % PGSIZE), len})

NextPage(va) == (PGROUNDDOWN(va) + 1) * PGSIZE

RECURSIVE copyout(_, _, _), copyin(_, _, _), copyinstr(_, _, _, _)

copyout(t, dstva, len) ==
  LET a == PGROUNDDOWN(dstva) IN
  \/ len = 0
  \/ /\ a < MAXVA /\ walkaddr(t, a) /\ t.leaf[a].w
     /\ copyout(t, NextPage(dstva), len - InPage(dstva, len))

copyin(t, srcva, len) ==
  \/ len = 0
  \/ /\ walkaddr(t, PGROUNDDOWN(srcva))
     /\ copyin(t, NextPage(srcva), len - InPage(srcva, len))

copyinstr(t, srcva, max, null) ==
  LET n == InPage(srcva, max) IN
  /\ max > 0
  /\ walkaddr(t, PGROUNDDOWN(srcva))
  /\ null < n \/ copyinstr(t, NextPage(srcva), max - n, null - n)

-----------------------------------------------------------------------------
proc_freepagetable(s, sz) ==
  uvmfree(uvmunmap(uvmunmap(s, TRAMPOLINE, TRAMPOLINE + 1, FALSE),
                   TRAPFRAME, TRAPFRAME + 1, FALSE), sz)

(* A page table with trampoline and trapframe only, or nothing. *)
proc_pagetable(s) ==
  LET r0 == [s EXCEPT !.free = @ - 1, !.t = [NoTable EXCEPT !.root = 1]]
      r1 == mappages(r0, TRAMPOLINE, Leaf(FALSE, FALSE, TRUE))
      r2 == mappages(r1, TRAPFRAME, Leaf(FALSE, TRUE, FALSE))
  IN
  IF s.free = 0 THEN Fail(s)
  ELSE IF ~r1.ok THEN Fail(uvmfree(r1, 0))
  ELSE IF ~r2.ok THEN Fail(uvmfree(uvmunmap(r2, TRAMPOLINE, TRAMPOLINE + 1, FALSE), 0))
  ELSE r2

(* The end of a step: s has the pages, rec is the slot. *)
Done(p, s, rec) ==
  /\ free' = s.free
  /\ panicked' = s.panic
  /\ proc' = [proc EXCEPT ![p] = rec]

Running(p) == ~panicked /\ proc[p].st = "run"

(* growproc() *)
sys_sbrk(p, n) ==
  LET sz == proc[p].sz
      newsz == (sz + n) % UINT
      s == IF n > 0 THEN uvmalloc(On(proc[p].t), sz, newsz, Leaf(TRUE, TRUE, FALSE))
           ELSE uvmdealloc(On(proc[p].t), sz, newsz)
      ret == IF ~s.ok THEN sz
             ELSE IF n > 0 THEN newsz
             ELSE IF newsz >= sz THEN sz ELSE newsz
  IN
  /\ Running(p)
  /\ Done(p, s, [proc[p] EXCEPT !.t = s.t, !.sz = ret,
                                !.guard = IF @ < PGROUNDUP(ret) THEN @ ELSE NoGuard])

freeproc(c) ==
  LET s == proc_freepagetable(On(proc[c].t), proc[c].sz) IN
  Done(c, [s EXCEPT !.free = @ + proc[c].tf], Unused)

FirstUnused == {c \in Slots : proc[c].st = "unused" /\ \A d \in 1..(c - 1) : proc[d].st # "unused"}

(* fork(): allocproc(), or nothing at all ... *)
fork(p) ==
  \E c \in FirstUnused :
    LET s == proc_pagetable(With(free - 1, NoTable)) IN
    /\ Running(p)
    /\ free > 0 /\ s.ok
    /\ free' = s.free
    /\ proc' = [proc EXCEPT ![c] = [Unused EXCEPT !.st = "used", !.tf = 1, !.t = s.t],
                            ![p].st = "fork"]
    /\ UNCHANGED panicked

fork_fails(p) ==
  LET s == proc_pagetable(With(free - 1, NoTable)) IN
  /\ Running(p) /\ FirstUnused # {}
  /\ free = 0 \/ ~s.ok
  /\ Done(p, [s EXCEPT !.free = IF free = 0 THEN 0 ELSE @ + 1], proc[p])

(* ... then uvmcopy(), or freeproc() of the child. *)
fork_copy(p, c) ==
  LET s == uvmcopy(On(proc[c].t), proc[p].t, proc[p].sz)
      u == proc_freepagetable(s, 0)
  IN
  /\ ~panicked /\ proc[p].st = "fork" /\ proc[c].st = "used"
  /\ free' = IF s.ok THEN s.free ELSE u.free + 1
  /\ panicked' = IF s.ok THEN s.panic ELSE s.panic \/ u.panic
  /\ proc' = [proc EXCEPT ![p].st = "run",
                          ![c] = IF s.ok
                                 THEN [@ EXCEPT !.st = "run", !.t = s.t, !.sz = proc[p].sz,
                                                !.guard = proc[p].guard]
                                 ELSE Unused]

sys_exit(p) ==
  /\ Running(p)
  /\ p # initproc
  /\ proc' = [proc EXCEPT ![p].st = "zombie"]
  /\ UNCHANGED <<free, panicked>>

wait(c) == ~panicked /\ proc[c].st = "zombie" /\ freeproc(c)

-----------------------------------------------------------------------------
(* sys_exec() copies n arguments to a page each; then exec() makes a page    *)
(* table.  Where either fails all pages go back.                             *)
sys_exec(p, n, img) ==
  LET s == proc_pagetable(With(free - n, NoTable)) IN
  /\ Running(p)
  /\ IF n > free THEN UNCHANGED vars
     ELSE IF ~s.ok THEN Done(p, [s EXCEPT !.free = @ + n], proc[p])
     ELSE Done(p, s, [proc[p] EXCEPT !.st = "exec", !.argv = n, !.new = s.t, !.img = img])

(* The page table that exec() gives up, and the argument pages after it. *)
ExecEnds(p, s, sz, rec) ==
  LET u == proc_freepagetable(s, sz) IN
  Done(p, [u EXCEPT !.free = @ + proc[p].argv],
       [rec EXCEPT !.st = "run", !.argv = 0, !.new = NoTable, !.newsz = 0, !.img = <<>>])


(* bad: *)
Bad(p, s, sz) == ExecEnds(p, s, sz, proc[p])

BadHeader(ph) == ph.memsz < ph.filesz \/ ph.vaddr % PGSIZE # 0

(* One program header: uvmalloc() and loadseg(); short: a readi() gave less. *)
exec_load(p, short) ==
  LET ph == Head(proc[p].img)
      sz == proc[p].newsz
      end == ph.vaddr + ph.memsz
      s == uvmalloc(On(proc[p].new), sz, end, Leaf(TRUE, ph.w, TRUE))
      loaded == {a \in User : PGROUNDDOWN(ph.vaddr) <= a /\ a < PGROUNDUP(ph.vaddr + ph.filesz)}
  IN
  /\ ~panicked /\ proc[p].st = "exec" /\ proc[p].img # <<>>
  /\ IF BadHeader(ph) THEN Bad(p, On(proc[p].new), sz)
     ELSE IF ~s.ok \/ Grown(sz, end) = 0 THEN Bad(p, s, sz)
     ELSE IF \E a \in loaded : ~walkaddr(s.t, a) THEN Done(p, Panic(s), proc[p])
     ELSE IF short THEN Bad(p, s, Grown(sz, end))
     ELSE Done(p, s, [proc[p] EXCEPT !.new = s.t, !.newsz = Grown(sz, end), !.img = Tail(@)])

(* Stack and guard page, arguments of len units, then the new image is p's. *)
exec_commit(p, len) ==
  LET old == proc[p]
      base == PGROUNDUP(old.newsz) * PGSIZE
      sz == base + (USERSTACK + 1) * PGSIZE
      s == uvmalloc(On(old.new), base, sz, Leaf(TRUE, TRUE, FALSE))
      g == uvmclear(s, PGROUNDDOWN(base))
      sp == sz - len
  IN
  /\ ~panicked /\ old.st = "exec" /\ old.img = <<>>
  /\ IF ~s.ok THEN Bad(p, s, base)
     ELSE IF sp < sz - USERSTACK * PGSIZE \/ ~copyout(g.t, sp, len) THEN Bad(p, g, sz)
     ELSE ExecEnds(p, [g EXCEPT !.t = old.t], old.sz, [old EXCEPT !.t = g.t, !.sz = sz, !.guard = PGROUNDDOWN(base)])

-----------------------------------------------------------------------------
(* userinit() and uvmfirst(): one process of a page. *)
Init ==
  LET s == mappages(proc_pagetable(With(NPAGES - 1, NoTable)),
                    0, Leaf(TRUE, TRUE, TRUE)) IN
  /\ free = s.free - 1
  /\ proc = [p \in Slots |-> IF p = initproc
                             THEN [Unused EXCEPT !.st = "run", !.tf = 1, !.t = s.t, !.sz = PGSIZE]
                             ELSE Unused]
  /\ panicked = FALSE

Step(p) ==
  \/ \E n \in Grow : sys_sbrk(p, n)
  \/ fork(p) \/ fork_fails(p) \/ \E c \in Slots : fork_copy(p, c)
  \/ sys_exit(p) \/ wait(p)
  \/ \E n \in 0..MAXARG, img \in Images : sys_exec(p, n, img)
  \/ \E short \in BOOLEAN : exec_load(p, short)
  \/ \E len \in 1..((USERSTACK + 1) * PGSIZE) : exec_commit(p, len)

Next == \E p \in Slots : Step(p)

Spec == Init /\ [][Next]_vars

-----------------------------------------------------------------------------
TypeOK ==
  /\ free \in 0..NPAGES
  /\ \A p \in Slots :
       /\ proc[p].st \in {"unused", "used", "run", "fork", "exec", "zombie"}
       /\ DOMAIN proc[p].t.leaf \subseteq 0..(MAXVA - 1)
       /\ proc[p].sz \in 0..(MAXVA * PGSIZE)

(* No panic of vm.c is reached: nothing is mapped twice, unmapped when it is *)
(* not mapped, or left behind as a leaf when page-table pages are freed,     *)
(* whatever allocation fails in growproc(), fork() and exec().               *)
NoPanic == ~panicked

PagesOf(t) == t.root + Cardinality(t.dirs) + Cardinality(DOMAIN t.leaf \cap User)

(* Every physical page is free or has one use in one process: the error      *)
(* paths of fork(), exec(), sbrk() and sys_exec() lose and free none twice.  *)
PagesAccounted ==
  NPAGES = free + MapThenSumSet(LAMBDA p : proc[p].tf + proc[p].argv + PagesOf(proc[p].t)
                                          + PagesOf(proc[p].new), Slots)

(* p->sz tells which pages are mapped: all those below it, and no other.     *)
SizeIsMapped ==
  \A p \in Slots : proc[p].st \in {"run", "fork", "exec", "zombie"} =>
    DOMAIN proc[p].t.leaf \cap User = 0..(PGROUNDUP(proc[p].sz) - 1)

(* Addresses and lengths that a user may pass: in and around the memory that *)
(* NPAGES allow, and around the trapframe.                                   *)
Ranges ==
  {b \in 0..(MAXVA * PGSIZE + 1) :
     PGROUNDDOWN(b) \in 0..(NPAGES \div 2) \cup (TRAPFRAME - 1)..(MAXVA + 1)}
  \X (0..(2 * PGSIZE + 1))

(* copyout() writes, copyin() and copyinstr() read exactly the ranges that   *)
(* lie in pages the user may use so: never the guard page or the trapframe.  *)
CopiesChecked ==
  \A p \in Slots : proc[p].st = "run" =>
    \A r \in Ranges :
      LET t == proc[p].t
          pages(len) == {PGROUNDDOWN(b) : b \in r[1]..(r[1] + len - 1)}
          mine(a) == a \in DOMAIN t.leaf /\ t.leaf[a].u
      IN /\ copyin(t, r[1], r[2]) = \A a \in pages(r[2]) : mine(a)
         /\ copyout(t, r[1], r[2]) = \A a \in pages(r[2]) : mine(a) /\ t.leaf[a].w
         /\ \A null \in {0, PGSIZE} :
              copyinstr(t, r[1], r[2], null) =
                (null < r[2] /\ \A a \in pages(null + 1) : mine(a))

(* The page below the stack that exec() made inaccessible stays so in the    *)
(* process and in what it forks, until sbrk() gives it up.                   *)
GuardKept ==
  \A p \in Slots : proc[p].st = "run" /\ proc[p].guard # NoGuard =>
    proc[p].guard \in DOMAIN proc[p].t.leaf /\ ~proc[p].t.leaf[proc[p].guard].u


(* copyin(), copyout() and copyinstr() reach the pages of the user and no     *)
(* other; the guard page under the stack is not one of them, also after       *)
(* fork().                                                                    *)
UserPagesOnly == CopiesChecked /\ GuardKept
=============================================================================

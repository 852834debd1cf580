------------------------------- MODULE Console -------------------------------
(***************************************************************************)
(* kernel/console.c and kernel/uart.c on several CPUs, with the spinlocks, *)
(* the interrupt state of each CPU (kernel/spinlock.c push_off, pop_off),  *)
(* kernel/trap.c's path to the handler and kernel/plic.c.  On each CPU a   *)
(* process reads from or writes to the console; between two steps of it an *)
(* interrupt is taken wherever the CPU has them on.  A CPU that spins for  *)
(* a lock or for the UART is one whose step is not enabled.                *)
(***************************************************************************)
EXTENDS Integers, FiniteSets, Sequences, SequencesExt

CONSTANTS
  CPUs, NoCpu,
  Readers, Writers,  \* CPUs whose processes read from, write to the console
  INPUT_BUF_SIZE,
  UART_TX_BUF_SIZE,
  UINT, UINT64, \* where the indices of cons and of uart_tx_buf wrap
  RXFIFO,       \* characters the UART holds that have come in,
  TXFIFO,       \* and that are to go out
  MAXN          \* bytes asked for by a read()

NewLine == "nl"
EOF == "eof"
Chars == {"x", NewLine, EOF, "kill", "erase"}

ASSUME ConsoleConstants ==
  /\ NoCpu \notin CPUs /\ Readers \cup Writers \subseteq CPUs
  /\ {INPUT_BUF_SIZE, UART_TX_BUF_SIZE, MAXN} \subseteq Nat \ {0}
  /\ UINT % INPUT_BUF_SIZE = 0 /\ UINT > INPUT_BUF_SIZE
  /\ UINT64 % UART_TX_BUF_SIZE = 0 /\ UINT64 > UART_TX_BUF_SIZE

VARIABLES
  cons,         \* buf, r, w, e
  tx,           \* uart_tx_buf (which put each byte is of), r, w
  lock,         \* holders of cons.lock and uart_tx_lock
  cpu,          \* per CPU: its process's place and the handler's, interrupts
                \* on, noff, intena; n and target of a read(), a character
  uart,         \* how many characters wait to be read, and to be sent; the
                \* transmit interrupt
  serving,      \* the PLIC has given the UART's interrupt to a CPU
  typed,        \* what a line editor would hold: finished input, and the
                \* line being edited
  panicked

vars == <<cons, tx, lock, cpu, uart, serving, typed, panicked>>

Plus(a, b) == (a + b) % UINT

Plus64(a, b) == (a + b) % UINT64

-----------------------------------------------------------------------------
panic == panicked' = TRUE /\ UNCHANGED <<cons, tx, lock, cpu, uart, serving, typed>>

At(c, f, place) == ~panicked /\ cpu[c][f] = place

Goto(c, f, place) == cpu' = [cpu EXCEPT ![c][f] = place]

(* push_off(): old = intr_get() is the step before, intr_off() and the rest. *)
push_old(k) == [k EXCEPT !.old = k.sie]


push_off(k) ==
  [k EXCEPT !.sie = FALSE, !.noff = @ + 1, !.intena = IF k.noff = 0 THEN k.old ELSE @,
            !.old = FALSE]

(* What pop_off() panics without. *)
Poppable(k) == ~k.sie /\ k.noff > 0

(* intena counts only until the last pop_off(). *)
pop_off(k) == [k EXCEPT !.noff = @ - 1, !.sie = k.noff = 1 /\ k.intena, !.intena = FALSE,
                        !.n = 0, !.target = 0]

(* acquire() by a process: interrupts off, then the swap. *)
acquire_push(c) ==
  \E kind \in {"read", "write"} :
    \/ /\ At(c, "pc", kind) /\ cpu[c].h = "none"
       /\ cpu' = [cpu EXCEPT ![c] = [push_old(@) EXCEPT !.pc = kind \o "_off"]]
       /\ UNCHANGED <<cons, tx, lock, uart, serving, typed, panicked>>
    \/ /\ At(c, "pc", kind \o "_off") /\ cpu[c].h = "none"
       /\ cpu' = [cpu EXCEPT ![c] = [push_off(@) EXCEPT !.pc = kind \o "_swap"]]
       /\ UNCHANGED <<cons, tx, lock, uart, serving, typed, panicked>>

Swap(c, l, f, place) ==
  IF lock[l] = c THEN panic
  ELSE /\ lock[l] = NoCpu
       /\ lock' = [lock EXCEPT ![l] = c]
       /\ Goto(c, f, place)
       /\ UNCHANGED <<cons, tx, uart, serving, typed, panicked>>

acquire(c) ==
  \/ At(c, "pc", "read_swap") /\ Swap(c, "cons", "pc", "read_in")
  \/ At(c, "pc", "write_swap") /\ Swap(c, "uart", "pc", "write_in")

(* release(), and back to user space *)
release(c, l) ==
  /\ lock' = [lock EXCEPT ![l] = NoCpu]
  /\ cpu' = [cpu EXCEPT ![c] = [pop_off(@) EXCEPT !.pc = "user"]]

(* sleep(&x, lk): the CPU runs the scheduler, which has interrupts on.       *)
sleep(c, l, place) ==
  IF cpu[c].noff # 1
  THEN panic               \* sched locks
  ELSE /\ lock' = [lock EXCEPT ![l] = NoCpu]
       /\ cpu' = [cpu EXCEPT ![c] = [@ EXCEPT !.pc = place, !.noff = 0, !.sie = TRUE,
                                              !.saved = cpu[c].intena, !.intena = FALSE]]
       /\ UNCHANGED <<cons, tx, uart, serving, typed, panicked>>

(* The acquire() at the end of sleep(), with intena back. *)
Resumed(k, place) ==
  [k EXCEPT !.pc = place, !.saved = FALSE, !.sie = IF k.h = "none" THEN k.saved ELSE @]

(* wakeup() *)
Woken(k, place) ==
  [c \in CPUs |-> IF k[c].pc = place \o "_sleep" THEN Resumed(k[c], place) ELSE k[c]]

(* kill() wakes a sleeper; consoleread() looks at killed, uartputc() does not. *)
kill(c) ==
  \E kind \in {"read", "write"} :
    /\ At(c, "pc", kind \o "_sleep")
    /\ cpu' = [cpu EXCEPT ![c] = Resumed(@, kind)]
    /\ UNCHANGED <<cons, tx, lock, uart, serving, typed, panicked>>

-----------------------------------------------------------------------------
(* read() and write() of the console begin, up to acquire()'s intr_get(). *)
sys_read(c) ==
  /\ c \in Readers /\ At(c, "pc", "user") /\ cpu[c].h = "none"
  /\ cpu' = [cpu EXCEPT ![c] = [push_old(@) EXCEPT !.pc = "read_off", !.n = MAXN,
                                                    !.target = MAXN]]
  /\ UNCHANGED <<cons, tx, lock, uart, serving, typed, panicked>>

sys_write(c) ==
  /\ c \in Writers /\ At(c, "pc", "user") /\ cpu[c].h = "none"
  /\ cpu' = [cpu EXCEPT ![c] = [push_old(@) EXCEPT !.pc = "write_off"]]
  /\ UNCHANGED <<cons, tx, lock, uart, serving, typed, panicked>>

(* Slots from cons.e on to cons.r are not read before they are written. *)
Forget(k, i) == [k EXCEPT !.buf[i % INPUT_BUF_SIZE] = "x"]

(* consoleread(): one turn of its loop.  The reader may have been killed, and *)
(* a byte that cannot be copied out is gone.                                 *)
consoleread(c) ==
  LET ch == cons.buf[cons.r % INPUT_BUF_SIZE]
      n == cpu[c].n
  IN
  /\ At(c, "pc", "read_in")
  /\ \E killed \in BOOLEAN, copied \in BOOLEAN :
     IF cons.r = cons.w /\ ~killed THEN sleep(c, "cons", "read_sleep")
     ELSE IF cons.r = cons.w
     THEN /\ release(c, "cons")
          /\ UNCHANGED <<cons, tx, uart, serving, typed, panicked>>
     ELSE IF ch = EOF /\ n < cpu[c].target
     THEN /\ release(c, "cons")          \* saved for the next read
          /\ UNCHANGED <<cons, tx, uart, serving, typed, panicked>>
     ELSE /\ cons' = [Forget(cons, cons.r) EXCEPT !.r = Plus(@, 1)]
          /\ typed' = [typed EXCEPT !.input = Tail(@)]
          /\ IF ch \in {EOF, NewLine} \/ n = 1 \/ ~copied
             THEN release(c, "cons")
             ELSE cpu' = [cpu EXCEPT ![c].n = n - 1] /\ UNCHANGED lock
          /\ UNCHANGED <<tx, uart, serving, panicked>>

TxFull == tx.w = Plus64(tx.r, UART_TX_BUF_SIZE)

uartputc_NoStart(c) ==
  /\ At(c, "pc", "write_in")
  /\ IF TxFull THEN sleep(c, "uart", "write_sleep")
     ELSE /\ tx' = [tx EXCEPT !.buf[tx.w % UART_TX_BUF_SIZE] = tx.w, !.w = Plus64(@, 1)]
          /\ release(c, "uart")
          /\ UNCHANGED <<cons, uart, serving, typed, panicked>>

(* uartputc() *)
uartputc(c) ==
  /\ At(c, "pc", "write_in")
  /\ IF TxFull THEN sleep(c, "uart", "write_sleep")
     ELSE /\ tx' = [tx EXCEPT !.buf[tx.w % UART_TX_BUF_SIZE] = tx.w, !.w = Plus64(@, 1)]
          /\ Goto(c, "pc", "start")
          /\ UNCHANGED <<cons, lock, uart, serving, typed, panicked>>

TxIdle == uart.tx = 0

(* uartstart()'s wakeup(&uart_tx_r) *)
StartWakes(k) == Woken(k, "write")

(* Without output the pending interrupt is acknowledged, else it stays. *)
ClearISR(u) == IF tx.w = tx.r THEN [u EXCEPT !.txint = FALSE] ELSE u

(* sret: interrupts on again. *)
Returned(k) == [k EXCEPT !.h = "none", !.sie = TRUE]

(* The end of uartintr(): release(), then plic_complete() and the return. *)
plic_complete(c) ==
  /\ lock' = [lock EXCEPT !["uart"] = NoCpu]
  /\ serving' = FALSE
  /\ cpu' = [cpu EXCEPT ![c] = Returned(@)]

(* uartstart(): a turn of its loop up to the write, f being the process or   *)
(* the handler; what follows its return is part of the last turn.            *)
uartstart(c, f) ==
  /\ At(c, f, "start")
  /\ IF tx.w = tx.r \/ ~TxIdle
     THEN /\ uart' = ClearISR(uart)
          /\ IF f = "h" THEN plic_complete(c) ELSE release(c, "uart") /\ UNCHANGED serving
          /\ UNCHANGED <<cons, tx, typed, panicked>>
     ELSE /\ tx' = [tx EXCEPT !.r = Plus64(@, 1)]
          /\ cpu' = [StartWakes(cpu) EXCEPT ![c][f] = "start_thr"]
          /\ UNCHANGED <<cons, lock, uart, serving, typed, panicked>>

WriteTHR == [uart EXCEPT !.tx = @ + 1, !.txint = FALSE]

uartstart_write(c, f) ==
  /\ At(c, f, "start_thr")
  /\ uart' = WriteTHR
  /\ Goto(c, f, "start")
  /\ UNCHANGED <<cons, tx, lock, serving, typed, panicked>>

-----------------------------------------------------------------------------
(* What the UART's interrupt line says. *)
Line == uart.rx > 0 \/ uart.txint

(* A trap: kernelvec, kerneltrap() and devintr() up to plic_claim().  The    *)
(* handler's own push_off() finds interrupts off and noff 0.                 *)
devintr(c) ==
  /\ At(c, "h", "none") /\ cpu[c].sie
  /\ Line /\ ~serving
  /\ cpu' = [cpu EXCEPT ![c] = [@ EXCEPT !.sie = FALSE, !.h = "claim", !.intena = FALSE]]
  /\ UNCHANGED <<cons, tx, lock, uart, serving, typed, panicked>>

(* plic_claim() gives 0 when another CPU was faster. *)
plic_claim(c) ==
  /\ At(c, "h", "claim")
  /\ IF Line /\ ~serving
     THEN serving' = TRUE /\ Goto(c, "h", "uart")
     ELSE cpu' = [cpu EXCEPT ![c] = Returned(@)] /\ UNCHANGED serving
  /\ UNCHANGED <<cons, tx, lock, uart, typed, panicked>>

(* uartintr(): uartgetc() until there is nothing, each character going to    *)
(* consoleintr(), which acquires cons.lock ...                               *)
uartintr_getc(c) ==
  /\ At(c, "h", "uart") /\ uart.rx > 0
  /\ IF lock["cons"] = c THEN panic
     ELSE /\ lock["cons"] = NoCpu
          /\ lock' = [lock EXCEPT !["cons"] = c]
          /\ uart' = [uart EXCEPT !.rx = @ - 1]
          /\ \E ch \in Chars : cpu' = [cpu EXCEPT ![c] = [@ EXCEPT !.h = "cons", !.ch = ch]]
          /\ UNCHANGED <<cons, tx, serving, typed, panicked>>

(* ... then uartstart(). *)
uartintr_start(c) == At(c, "h", "uart") /\ uart.rx = 0 /\ Swap(c, "uart", "h", "start")


(* cons.e - cons.r < INPUT_BUF_SIZE, as unsigned ints *)
Room == (cons.e - cons.r) % UINT < INPUT_BUF_SIZE

Stored(ch) ==
  [cons EXCEPT !.buf[cons.e % INPUT_BUF_SIZE] = ch, !.e = Plus(@, 1)]

Complete(ch) == ch \in {NewLine, EOF} \/ (cons.e + 1 - cons.r) % UINT = INPUT_BUF_SIZE

(* consoleintr() of a stored character, an erased one, or a killed line: the *)
(* new cons, and what an editor would hold.                                  *)
Edited(ch) ==
  CASE ch = "kill" -> [cons EXCEPT !.e = cons.w]       \* no newline is past cons.w
    [] ch = "erase" -> IF cons.e = cons.w THEN cons
                       ELSE [cons EXCEPT !.e = Plus(@, UINT - 1)]
    [] OTHER -> IF ~Room THEN cons
                ELSE IF Complete(ch) THEN [Stored(ch) EXCEPT !.w = Plus(cons.e, 1)]
                ELSE Stored(ch)

Echoes(ch) == Edited(ch) # cons

(* wakeup(&cons.r) *)
CommitWakes(ch, k) == IF Complete(ch) THEN Woken(k, "read") ELSE k

Line_of(t) == t.input \o t.edit

EditorSays(ch) ==
  CASE ch = "kill" -> [typed EXCEPT !.edit = <<>>]
    [] ch = "erase" -> [typed EXCEPT !.edit = IF @ = <<>> THEN @ ELSE Front(@)]
    [] OTHER -> IF Len(Line_of(typed)) = INPUT_BUF_SIZE THEN typed
                ELSE IF ch \in {NewLine, EOF} \/ Len(Line_of(typed)) + 1 = INPUT_BUF_SIZE
                THEN [input |-> Append(Line_of(typed), ch), edit |-> <<>>]
                ELSE [typed EXCEPT !.edit = Append(@, ch)]

(* consoleintr(): consputc() waits for the UART with cons.lock held (for a    *)
(* BACKSPACE three times over, here once) ...                                *)
consputc(c) ==
  /\ At(c, "h", "cons") /\ Echoes(cpu[c].ch)
  /\ TxIdle
  /\ Goto(c, "h", "cons_thr")
  /\ UNCHANGED <<cons, tx, lock, uart, serving, typed, panicked>>

(* ... and writes to it; the character is stored and readers are woken. *)
consoleintr(c) ==
  LET ch == cpu[c].ch
      wakes == ch \notin {"kill", "erase"} /\ Room
  IN
  /\ At(c, "h", IF Echoes(ch) THEN "cons_thr" ELSE "cons")
  /\ uart' = IF Echoes(ch) THEN WriteTHR ELSE uart
  /\ cons' = Edited(ch)
  /\ typed' = EditorSays(ch)
  /\ lock' = [lock EXCEPT !["cons"] = NoCpu]
  /\ cpu' = [IF wakes THEN CommitWakes(ch, cpu) ELSE cpu EXCEPT ![c].h = "uart", ![c].ch = "x"]
  /\ UNCHANGED <<tx, serving, panicked>>

-----------------------------------------------------------------------------
(* The UART receives and sends. *)
Receive ==
  /\ ~panicked /\ uart.rx < RXFIFO
  /\ uart' = [uart EXCEPT !.rx = @ + 1]
  /\ UNCHANGED <<cons, tx, lock, cpu, serving, typed, panicked>>

Transmit ==
  /\ ~panicked /\ uart.tx > 0
  /\ uart' = [uart EXCEPT !.tx = @ - 1, !.txint = uart.tx = 1]
  /\ UNCHANGED <<cons, tx, lock, cpu, serving, typed, panicked>>

(* consoleinit() and uartinit(), every CPU in user space. *)
Init ==
  /\ cons = [buf |-> [i \in 0..(INPUT_BUF_SIZE - 1) |-> "x"], r |-> 0, w |-> 0, e |-> 0]
  /\ tx = [buf |-> [i \in 0..(UART_TX_BUF_SIZE - 1) |-> 0], r |-> 0, w |-> 0]
  /\ lock = [l \in {"cons", "uart"} |-> NoCpu]
  /\ cpu = [c \in CPUs |-> [pc |-> "user", h |-> "none", sie |-> TRUE, noff |-> 0, old |-> FALSE,
                            intena |-> FALSE, saved |-> FALSE, n |-> 0, target |-> 0, ch |-> "x"]]
  /\ uart = [rx |-> 0, tx |-> 0, txint |-> FALSE]
  /\ serving = FALSE
  /\ typed = [input |-> <<>>, edit |-> <<>>]
  /\ panicked = FALSE

Kernel(c) ==
  \/ acquire_push(c)
  \/ acquire(c)
  \/ consoleread(c) \/ uartputc(c)
  \/ uartstart(c, "pc") \/ uartstart_write(c, "pc")

Handler(c) ==
  \/ devintr(c) \/ plic_claim(c)
  \/ uartintr_getc(c) \/ consputc(c) \/ consoleintr(c) \/ uartintr_start(c)
  \/ uartstart(c, "h") \/ uartstart_write(c, "h")

Next ==
  \/ \E c \in CPUs : Kernel(c) \/ Handler(c) \/ sys_write(c) \/ sys_read(c) \/ kill(c)
  \/ Receive \/ Transmit

Spec == Init /\ [][Next]_vars

-----------------------------------------------------------------------------
TypeOK ==
  /\ {cons.r, cons.w, cons.e, tx.r, tx.w} \subseteq 0..(UINT - 1)
  /\ lock \in [{"cons", "uart"} -> CPUs \cup {NoCpu}]
  /\ \A c \in CPUs : cpu[c].sie \in BOOLEAN /\ cpu[c].noff \in 0..1 /\ cpu[c].n \in 0..MAXN
  /\ uart.tx \in 0..TXFIFO

(* No CPU spins for a lock that it holds already, though its handlers take   *)
(* the locks of the code they interrupt; sched() finds one lock held, and    *)
(* pop_off() interrupts off.                                                 *)
NoPanic ==
  /\ ~panicked
  /\ \A c \in CPUs : cpu[c].pc \in {"read_in", "write_in", "start", "start_thr"} =>
       Poppable(cpu[c])

(* A CPU in user space or back from sleep() has interrupts on and no push_off() open,   *)
(* also when an interrupt came in the middle of push_off().                  *)
InterruptsRestored ==
  \A c \in CPUs : cpu[c].h = "none" /\ cpu[c].pc \in {"user", "read", "write"} =>
    cpu[c].sie /\ cpu[c].noff = 0

Distance(a, b, wrap) == (b - a) % wrap

(* cons.buf holds what a line editor with a buffer of that size would hold:  *)
(* finished input in order, then the line being edited.                      *)
InputIsEdited ==
  LET at(i) == cons.buf[(cons.r + i - 1) % INPUT_BUF_SIZE] IN
  /\ [i \in 1..Distance(cons.r, cons.w, UINT) |-> at(i)] = typed.input
  /\ [i \in 1..Distance(cons.r, cons.e, UINT) |-> at(i)] = Line_of(typed)

(* No byte in uart_tx_buf is overwritten before it is sent, over the wrap. *)
OutputKept ==
  LET n == Distance(tx.r, tx.w, UINT64) IN
  n <= UART_TX_BUF_SIZE
  /\ \A i \in 0..(n - 1) : tx.buf[(tx.r + i) % UART_TX_BUF_SIZE] = Plus64(tx.r, i)

(* Nobody sleeps in consoleread() beside finished input, nor in uartputc()   *)
(* beside room in the buffer.                                                *)
SleepersHaveReason ==
  \A c \in CPUs :
    /\ cpu[c].pc = "read_sleep" => cons.r = cons.w
    /\ cpu[c].pc = "write_sleep" => TxFull

(* Buffered output always has something to send it on: a character in the    *)
(* UART whose end will interrupt, that interrupt, or a CPU in uartstart();   *)
(* echo, which writes to the UART past the buffer, never takes it away.      *)
OutputMoves ==
  tx.r # tx.w => uart.tx > 0 \/ uart.txint \/ lock["uart"] # NoCpu
                 \/ \E c \in CPUs : cpu[c].h \in {"cons_thr", "uart", "cons"}



(* Nobody waits for a character or for room that is there already, and        *)
(* buffered output has something to send it on.                               *)
OutputAndSleepersMove == SleepersHaveReason /\ OutputMoves
=============================================================================

----------------------------- MODULE Instructions -----------------------------
(***************************************************************************)
(* The steps of the thread functions in the programs around the rings.  A  *)
(* thread function is written as a record: label -> instruction, with the  *)
(* labels that may follow it in yes and no.  Words are shared atomics or   *)
(* results, the thread's locals i, j, k, got, exp and bad, or "hand", the  *)
(* number of the event it popped last.                                     *)
(***************************************************************************)
EXTENDS Integers

Local == {"i", "j", "k", "got", "exp", "bad"}

Instruction == [op |-> "any", w |-> "zero", x |-> "zero", n |-> 0, r |-> "ring", tag |-> "event", ts |-> {}, yes |-> "end", no |-> "end"]

Set(w, n, next) == [Instruction EXCEPT !.op = "set", !.w = w, !.n = n, !.yes = next]
Add(w, n, next) == [Instruction EXCEPT !.op = "add", !.w = w, !.n = n, !.yes = next]
Copy(w, x, next) == [Instruction EXCEPT !.op = "copy", !.w = w, !.x = x, !.yes = next]

\* ++w; if (w < n) yes else no: the end of a counted loop.
For(w, n, yes, no) == [Instruction EXCEPT !.op = "for", !.w = w, !.n = n, !.yes = yes, !.no = no]

\* if (w < x + n); if (w < n); spin while (w < x + n)
Less(w, x, n, yes, no) == [Instruction EXCEPT !.op = "less", !.w = w, !.x = x, !.n = n, !.yes = yes, !.no = no]
Below(w, n, yes, no) == Less(w, "zero", n, yes, no)
Await(w, x, n, next) == [Instruction EXCEPT !.op = "await", !.w = w, !.x = x, !.n = n, !.yes = next]

\* push the event number n + w, no: the ring is full; pop into the thread's
\* hand, no: the ring is empty.
Push(r, tag, n, w, yes, no) == [Instruction EXCEPT !.op = "push", !.r = r, !.tag = tag, !.n = n, !.w = w, !.yes = yes, !.no = no]
Pop(r, yes, no) == [Instruction EXCEPT !.op = "pop", !.r = r, !.yes = yes, !.no = no]

\* The event in hand: is it of this sort; add its number to w; compare its
\* number with the expected one, count a mismatch, and expect the next
\* (after the event's number when n = 1, else after the expected one).
Tagged(tag, yes, no) == [Instruction EXCEPT !.op = "tagged", !.tag = tag, !.yes = yes, !.no = no]
Tally(w, next) == [Instruction EXCEPT !.op = "tally", !.w = w, !.yes = next]
Verify(n, next) == [Instruction EXCEPT !.op = "verify", !.n = n, !.yes = next]

\* Take the mutex w: 0 is free.
Lock(w, next) == [Instruction EXCEPT !.op = "lock", !.w = w, !.yes = next]

Start(ts, next) == [Instruction EXCEPT !.op = "start", !.ts = ts, !.yes = next]
Join(ts, next) == [Instruction EXCEPT !.op = "join", !.ts = ts, !.yes = next]

\* The caller, the clock or the data decides which of the labels is next.
Either(ts) == [Instruction EXCEPT !.op = "any", !.ts = ts]

\* The program's verdict: every <<w, x, n>> of ts has w = x + n.
Report(ts, next) == [Instruction EXCEPT !.op = "report", !.ts = ts, !.yes = next]

\* exit(1) or std::terminate, by any thread, ends all threads of the process.
Exit(ts) == [Instruction EXCEPT !.op = "exit", !.ts = ts]
=============================================================================

------------------------------- MODULE Driver -------------------------------
(***************************************************************************)
(* The command line (src/src/main.rs): one invocation after another on the *)
(* same output file, as build scripts make them.  Every step that touches  *)
(* a file may fail, every panic ends the process, and the process may be   *)
(* killed between any two steps; the file keeps what it held.              *)
(*                                                                         *)
(* A source text is a model value; what IRGen and AsmGen say about it is   *)
(* whether it is rejected.  The `unwrap_or_else` fallbacks of main are not *)
(* reached: ast.parse and Asm::from return Ok or panic.                    *)
(***************************************************************************)
EXTENDS Naturals

CONSTANTS
  Sources,      \* the texts an input file may hold
  SyntaxErrors, \* those the grammar does not accept
  Rejected      \* those that make CompUnit::parse panic

ASSUME DriverAssumption == SyntaxErrors \subseteq Sources /\ Rejected \subseteq Sources

VARIABLES
  at,       \* the next step of main; "idle" when no process runs
  koopa,    \* the flag -koopa
  riscv,    \* the flag -riscv
  source,   \* the content of the input file
  output,   \* the content of the output file
  exit,     \* how the last process ended; "none" while one runs
  before    \* history: the output file when the process started

vars == <<at, koopa, riscv, source, output, exit, before>>

\* What a file holds: a text of some kind made from a source, or a first part
\* of one; "other" is what was there before.
Content == [kind : {"other", "empty", "koopa", "part of koopa", "asm", "part of asm"},
            from : Sources]
File(kind, s) == [kind |-> kind, from |-> s]

Steps == {"read", "parse", "koopa", "asm", "print",
          "create koopa", "write koopa", "create asm", "write asm"}
Exits == {"ok", "io error", "panic", "killed"}

Init ==
  /\ at = "idle" /\ exit = "ok"
  /\ koopa = FALSE /\ riscv = FALSE
  /\ source \in Sources
  /\ output = File("other", source) /\ before = output

-----------------------------------------------------------------------------
Invoke(k, r, s) ==
  /\ at = "idle"
  /\ at' = "read" /\ koopa' = k /\ riscv' = r /\ source' = s
  /\ exit' = "none" /\ before' = output
  /\ UNCHANGED output

Same == UNCHANGED <<koopa, riscv, source, before>>

GoTo(step) == at' = step /\ UNCHANGED exit
Exit(how)  == at' = "idle" /\ exit' = how

\* The step after the Koopa file, if any.
AfterKoopa_ElseIf == IF riscv /\ ~koopa THEN GoTo("create asm") ELSE Exit("ok")
AfterKoopa == IF riscv THEN GoTo("create asm") ELSE Exit("ok")

\* read_to_string(input)?
ReadInput ==
  /\ at = "read"
  /\ GoTo("parse") \/ Exit("io error")
  /\ UNCHANGED output /\ Same

\* CompUnitParser::parse, and the choice by flags.
ParseInput ==
  /\ at = "parse"
  /\ IF source \in SyntaxErrors THEN Exit("panic")
     ELSE GoTo(IF koopa \/ riscv THEN "koopa" ELSE "print")
  /\ UNCHANGED output /\ Same

\* Slip: the output file is opened before the program is known to be legal.
GenerateKoopa_OpenFirst ==
  /\ at = "koopa"
  /\ IF source \in Rejected THEN Exit("panic") ELSE GoTo(IF riscv THEN "asm" ELSE "print")
  /\ output' = File("empty", source) /\ Same

\* ast.parse()
GenerateKoopa ==
  /\ at = "koopa"
  /\ IF source \in Rejected THEN Exit("panic") ELSE GoTo(IF riscv THEN "asm" ELSE "print")
  /\ UNCHANGED output /\ Same

\* Asm::from
GenerateAsm ==
  /\ at = "asm"
  /\ GoTo("print")
  /\ UNCHANGED output /\ Same

\* println! of the syntax tree panics when stdout is closed.
PrintAst ==
  /\ at = "print"
  /\ \/ IF koopa \/ riscv THEN GoTo("create koopa") ELSE Exit("ok")
     \/ Exit("panic")
  /\ UNCHANGED output /\ Same

\* File::create empties the file it opens, or fails.
Create(this, next) ==
  /\ at = this
  /\ \/ GoTo(next) /\ output' = File("empty", source)
     \/ Exit("io error") /\ UNCHANGED output
  /\ Same

\* write_all, in as many writes as the system makes of it.
WriteSome(this, part) ==
  /\ at = this /\ output.kind = "empty"
  /\ output' = File(part, source)
  /\ UNCHANGED <<at, exit>> /\ Same

WriteFails(this) ==
  /\ at = this
  /\ Exit("io error")
  /\ UNCHANGED output /\ Same

CreateKoopa == Create("create koopa", "write koopa")
CreateAsm   == Create("create asm", "write asm")

WriteKoopa ==
  \/ WriteSome("write koopa", "part of koopa")
  \/ WriteFails("write koopa")
  \/ /\ at = "write koopa"
     /\ output' = File("koopa", source)
     /\ AfterKoopa /\ Same

\* Slip: a write that fails is tried again.
WriteAsm_Retried ==
  \/ WriteSome("write asm", "part of asm")
  \/ /\ at = "write asm"
     /\ GoTo("create asm") /\ UNCHANGED output /\ Same
  \/ /\ at = "write asm"
     /\ output' = File("asm", source)
     /\ Exit("ok") /\ Same

WriteAsm ==
  \/ WriteSome("write asm", "part of asm")
  \/ WriteFails("write asm")
  \/ /\ at = "write asm"
     /\ output' = File("asm", source)
     /\ Exit("ok") /\ Same

Kill ==
  /\ at # "idle"
  /\ Exit("killed")
  /\ UNCHANGED output /\ Same

Main == \/ ReadInput \/ ParseInput \/ GenerateKoopa \/ GenerateAsm \/ PrintAst
        \/ CreateKoopa \/ WriteKoopa \/ CreateAsm \/ WriteAsm

Next == Main \/ Kill \/ \E k, r \in BOOLEAN, s \in Sources : Invoke(k, r, s)

\* A running process is scheduled; nothing makes anybody start one or kill it.
Spec == Init /\ [][Next]_vars /\ WF_vars(Main)

-----------------------------------------------------------------------------
(* Properties.                                                             *)

TypeOK ==
  /\ at \in Steps \cup {"idle"}
  /\ koopa \in BOOLEAN /\ riscv \in BOOLEAN /\ source \in Sources
  /\ output \in Content /\ before \in Content
  /\ exit \in Exits \cup {"none"}

\* A program that the compiler rejects costs nobody the output of an earlier
\* one: main opens the output file only after every stage that may panic.
PanicKeepsOutput == exit = "panic" => output = before

\* When the process reports success the output file holds what the flags asked
\* for, whole and made from this source; the Koopa text that -riscv also
\* writes is overwritten.
SuccessMeansTarget ==
  exit = "ok" /\ (koopa \/ riscv) =>
    output = File(IF riscv THEN "asm" ELSE "koopa", source)

\* A process that is started ends, whatever fails on its way.
Terminates == at # "idle" ~> at = "idle"
=============================================================================

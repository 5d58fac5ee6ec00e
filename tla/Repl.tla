-------------------------------- MODULE Repl --------------------------------
(***************************************************************************)
(* start_nexus_python (nexus_hal.c): the boot script, the prompt, and how  *)
(* a Python exception finds its way back (py/nlr.c, py/nlrx86.c): nlr_jump *)
(* cuts the C stack down to the latest nlr_buf, runs the callbacks that    *)
(* were registered below it and goes on there.                             *)
(*                                                                         *)
(* cs is the C stack, one record for each activation that matters here:    *)
(*   repl   start_nexus_python (its nlr_buf)                               *)
(*   exec   mp_parse_compile_execute, called for the script, for a line    *)
(*          and by eval and exec (a callback that restores the context)    *)
(*   parse  mp_parse (a callback that frees the lexer)                     *)
(*   call   fun_bc_call and the interpreter under it (an nlr_buf)          *)
(*   class  mp_builtin___build_class__ (neither)                           *)
(*   print  mp_obj_print_exception                                         *)
(* An address is a position in cs, so "pushed later" is "further along":   *)
(* the stack grows down, the comparison of nlr_call_jump_callbacks turns   *)
(* round.  What a function computes is left out: at any point it may call, *)
(* return or raise.                                                        *)
(***************************************************************************)
EXTENDS Integers, Sequences, FiniteSets

CONSTANTS
  Dicts,         \* dictionaries of modules and of classes being defined:
                 \* what globals and locals may be
  Main,          \* the dictionary of __main__
  stack_limit    \* mp_stack_set_limit, in activations

ASSUME ReplAssumption == Main \in Dicts /\ stack_limit \in Nat \ {0}

VARIABLES
  cs,                    \* the C stack
  nlr_top,               \* the chain of nlr_bufs, as positions, latest last
  nlr_jump_callback_top, \* the chain of callbacks, likewise
  globals, locals,       \* the context of the running code
  lexers,                \* lexers mp_lexer_new returned and nobody freed
  script                 \* nexus_ai.py is on the RAM disk

context == <<globals, locals>>
vars == <<cs, nlr_top, nlr_jump_callback_top, context, lexers, script>>

(* kind, where it is, the dictionary it runs in, the context it saved. *)
Frame(k, at, d) ==
  [kind |-> k, at |-> at, dict |-> d, globals |-> globals, locals |-> locals]

Depth == Len(cs)
Top == cs[Depth]
Is(k, at) == Top.kind = k /\ Top.at = at
Goes(at) == [cs EXCEPT ![Depth].at = at]
Pop(s) == SubSeq(s, 1, Len(s) - 1)

Init ==
  /\ globals = Main /\ locals = Main
  /\ cs = <<Frame("repl", "start", Main)>>
  /\ nlr_top = << >> /\ nlr_jump_callback_top = << >>
  /\ lexers = 0 /\ script \in BOOLEAN

-----------------------------------------------------------------------------
(* nlr_jump *)

(* Mutant: the callbacks are not run. *)
nlr_call_jump_callbacks_Not(p) ==
  UNCHANGED <<nlr_jump_callback_top, lexers, context>>

(* The callbacks registered after the nlr_buf at p was pushed are popped   *)
(* and run, the latest first: a parser's frees its lexer, the context is   *)
(* in the end the one the earliest of the others saved.                    *)
nlr_call_jump_callbacks(p) ==
  \E k \in 0 .. Len(nlr_jump_callback_top) :
    LET run == k + 1 .. Len(nlr_jump_callback_top)
        Of(i) == cs[nlr_jump_callback_top[i]]
    IN /\ k > 0 => nlr_jump_callback_top[k] <= p
       /\ \A i \in run : nlr_jump_callback_top[i] > p
       /\ nlr_jump_callback_top' = SubSeq(nlr_jump_callback_top, 1, k)
       /\ lexers' = lexers - Cardinality({i \in run : Of(i).kind = "parse"})
       /\ \/ (\A i \in run : Of(i).kind # "exec") /\ UNCHANGED context
          \/ \E i \in run :
               /\ Of(i).kind = "exec" /\ \A j \in k + 1 .. i - 1 : Of(j).kind # "exec"
               /\ globals' = Of(i).globals /\ locals' = Of(i).locals

(* With no nlr_buf, nlr_jump_fail prints a message and loops for ever. *)
nlr_jump ==
  IF nlr_top = << >>
  THEN /\ cs' = Goes("fatal")
       /\ UNCHANGED <<nlr_top, nlr_jump_callback_top, context, lexers>>
  ELSE LET p == nlr_top[Len(nlr_top)] IN
       /\ cs' = [SubSeq(cs, 1, p) EXCEPT ![p].at = "caught"]
       /\ nlr_top' = Pop(nlr_top)
       /\ nlr_call_jump_callbacks(p)

(* Everything that allocates, parses or runs Python code may raise. *)
Raise ==
  /\ \/ Is("repl", "guarded") \/ Is("parse", "parse") \/ Is("exec", "compile")
     \/ Is("exec", "call") \/ Is("call", "run") \/ Is("call", "raise")
     \/ Is("class", "body") \/ Is("class", "meta") \/ Is("print", "print")
  /\ nlr_jump
  /\ UNCHANGED script

-----------------------------------------------------------------------------
(* mp_parse_compile_execute(lex, ..., g, l), whose caller goes on at "at" *)

(* mp_lexer_new gives its caller a lexer.  When it raises instead, which   *)
(* is a Raise where the caller is, the half-built lexer is in no one's     *)
(* hands, and only a garbage collection takes it back.                     *)
mp_lexer_new == lexers' = lexers + 1

(* From the lexer to the callback that will restore the context nothing    *)
(* raises, nor from there to the callback of mp_parse.                     *)
Execute(g, l, at) ==
  /\ mp_lexer_new
  /\ cs' = Append(Goes(at), Frame("exec", "parse", g))
  /\ globals' = g /\ locals' = l
  /\ nlr_jump_callback_top' = Append(nlr_jump_callback_top, Depth + 1)
  /\ UNCHANGED <<nlr_top, script>>

mp_parse ==
  /\ Is("exec", "parse")
  /\ cs' = Append(Goes("compile"), Frame("parse", "parse", Top.dict))
  /\ nlr_jump_callback_top' = Append(nlr_jump_callback_top, Depth + 1)
  /\ UNCHANGED <<nlr_top, context, lexers, script>>

(* nlr_pop_jump_callback(true): the callback is run on the way out too. *)
ParseReturns ==
  /\ Is("parse", "parse")
  /\ cs' = Pop(cs)
  /\ nlr_jump_callback_top' = Pop(nlr_jump_callback_top)
  /\ lexers' = lexers - 1
  /\ UNCHANGED <<nlr_top, context, script>>

mp_compile ==
  /\ Is("exec", "compile") /\ cs' = Goes("call")
  /\ UNCHANGED <<nlr_top, nlr_jump_callback_top, context, lexers, script>>

(* Mutant: only the globals are restored. *)
ExecReturns_GlobalsOnly ==
  /\ Is("exec", "done")
  /\ cs' = Pop(cs)
  /\ nlr_jump_callback_top' = Pop(nlr_jump_callback_top)
  /\ globals' = Top.globals
  /\ UNCHANGED <<nlr_top, locals, lexers, script>>

ExecReturns ==
  /\ Is("exec", "done")
  /\ cs' = Pop(cs)
  /\ nlr_jump_callback_top' = Pop(nlr_jump_callback_top)
  /\ globals' = Top.globals /\ locals' = Top.locals
  /\ UNCHANGED <<nlr_top, lexers, script>>

-----------------------------------------------------------------------------
(* fun_bc_call and mp_execute_bytecode *)

(* Mutant: the stack is not checked. *)
fun_bc_call_Unchecked(d, at) ==
  /\ cs' = Append(Goes(at), Frame("call", "run", d))
  /\ globals' = d
  /\ nlr_top' = Append(nlr_top, Depth + 1)
  /\ UNCHANGED <<nlr_jump_callback_top, locals, lexers, script>>

(* MP_STACK_CHECK, the function's own globals, nlr_push.  The locals stay: *)
(* a function has its own on the stack, only the code of modules, lines    *)
(* and class bodies uses these.                                            *)
fun_bc_call(d, at) ==
  /\ Depth < stack_limit
  /\ cs' = Append(Goes(at), Frame("call", "run", d))
  /\ globals' = d
  /\ nlr_top' = Append(nlr_top, Depth + 1)
  /\ UNCHANGED <<nlr_jump_callback_top, locals, lexers, script>>

ModuleRuns == Is("exec", "call") /\ fun_bc_call(globals, "done")
Calls == Is("call", "run") /\ \E d \in Dicts : fun_bc_call(d, "run")
EvalExec == Is("call", "run") /\ \E g \in Dicts, l \in Dicts : Execute(g, l, "run")

(* Mutant: the nlr_buf stays on the chain. *)
CallReturns_NoPop ==
  /\ Is("call", "run")
  /\ cs' = Pop(cs) /\ globals' = Top.globals
  /\ UNCHANGED <<nlr_top, nlr_jump_callback_top, locals, lexers, script>>

CallReturns ==
  /\ Is("call", "run")
  /\ cs' = Pop(cs) /\ nlr_top' = Pop(nlr_top) /\ globals' = Top.globals
  /\ UNCHANGED <<nlr_jump_callback_top, locals, lexers, script>>

(* The exception handler finds a try block: the outer loop pushes again. *)
Handled ==
  /\ Is("call", "caught")
  /\ cs' = Goes("run") /\ nlr_top' = Append(nlr_top, Depth)
  /\ UNCHANGED <<nlr_jump_callback_top, context, lexers, script>>

(* Mutant: fun_bc_call keeps the function's globals on an exception. *)
NotHandled_KeepsGlobals ==
  /\ Is("call", "caught")
  /\ cs' = Goes("raise") /\ UNCHANGED globals
  /\ UNCHANGED <<nlr_top, nlr_jump_callback_top, locals, lexers, script>>

(* None: MP_VM_RETURN_EXCEPTION, the old globals, then nlr_raise. *)
NotHandled ==
  /\ Is("call", "caught")
  /\ cs' = Goes("raise") /\ globals' = Top.globals
  /\ UNCHANGED <<nlr_top, nlr_jump_callback_top, locals, lexers, script>>

-----------------------------------------------------------------------------
(* mp_builtin___build_class__ *)

(* The class body runs with the class's new dictionary as its locals. *)
BuildClass ==
  /\ Is("call", "run")
  /\ cs' = Append(Goes("run"), Frame("class", "body", Top.dict))
  /\ locals' \in Dicts \ {Main}
  /\ UNCHANGED <<nlr_top, nlr_jump_callback_top, globals, lexers, script>>

(* The body is a function; __build_class__ takes any callable, which may   *)
(* call on, or call nothing.                                               *)
ClassBody == Is("class", "body") /\ \E d \in Dicts : fun_bc_call(d, "body")

(* The old locals come back here and nowhere else: no callback is on the   *)
(* chain, so an exception from the body leaves the class's in place.       *)
ClassBuilt ==
  /\ Is("class", "body")
  /\ cs' = Goes("meta") /\ locals' = Top.locals
  /\ UNCHANGED <<nlr_top, nlr_jump_callback_top, globals, lexers, script>>

(* The metaclass is called. *)
ClassCalls == Is("class", "meta") /\ \E d \in Dicts : fun_bc_call(d, "meta")

ClassReturns ==
  /\ Is("class", "meta") /\ cs' = Pop(cs)
  /\ UNCHANGED <<nlr_top, nlr_jump_callback_top, context, lexers, script>>

-----------------------------------------------------------------------------
(* start_nexus_python *)

(* Mutant: a line of input is run without an nlr_buf. *)
Guard_Missing ==
  \/ /\ Is("repl", "start") /\ script
     /\ cs' = Goes("guarded") /\ nlr_top' = <<1>>
     /\ UNCHANGED <<nlr_jump_callback_top, context, lexers, script>>
  \/ /\ Is("repl", "prompt")
     /\ cs' = Goes("guarded")
     /\ UNCHANGED <<nlr_top, nlr_jump_callback_top, context, lexers, script>>

(* nlr_push, for the script and for a line that is not empty. *)
Guard ==
  /\ (Is("repl", "start") /\ script) \/ Is("repl", "prompt")
  /\ cs' = Goes("guarded") /\ nlr_top' = <<1>>
  /\ UNCHANGED <<nlr_jump_callback_top, context, lexers, script>>

NoScript ==
  /\ Is("repl", "start") /\ ~script /\ cs' = Goes("prompt")
  /\ UNCHANGED <<nlr_top, nlr_jump_callback_top, context, lexers, script>>

RunSource == Is("repl", "guarded") /\ Execute(globals, locals, "ran")

SourceRan ==
  /\ Is("repl", "ran")
  /\ cs' = Goes("prompt") /\ nlr_top' = Pop(nlr_top)
  /\ UNCHANGED <<nlr_jump_callback_top, context, lexers, script>>

(* mp_obj_print_exception is called outside of any nlr_buf. *)
PrintException ==
  /\ Is("repl", "caught")
  /\ cs' = Append(Goes("prompt"), Frame("print", "print", Main))
  /\ UNCHANGED <<nlr_top, nlr_jump_callback_top, context, lexers, script>>

(* An exception of a Python class is printed by its own __repr__. *)
PrintCalls == Is("print", "print") /\ \E d \in Dicts : fun_bc_call(d, "print")

PrintReturns ==
  /\ Is("print", "print") /\ cs' = Pop(cs)
  /\ UNCHANGED <<nlr_top, nlr_jump_callback_top, context, lexers, script>>

-----------------------------------------------------------------------------
Next ==
  \/ Raise
  \/ mp_parse \/ ParseReturns \/ mp_compile \/ ExecReturns
  \/ ModuleRuns \/ Calls \/ EvalExec \/ CallReturns \/ Handled \/ NotHandled
  \/ BuildClass \/ ClassBody \/ ClassBuilt \/ ClassCalls \/ ClassReturns
  \/ Guard \/ NoScript \/ RunSource \/ SourceRan
  \/ PrintException \/ PrintCalls \/ PrintReturns

Spec == Init /\ [][Next]_vars

-----------------------------------------------------------------------------
(* Type correctness. *)
Kinds == {"repl", "exec", "parse", "call", "class", "print"}
Places == {"start", "prompt", "guarded", "ran", "caught", "fatal", "parse",
           "compile", "call", "done", "run", "raise", "body", "meta", "print"}
Activation ==
  [kind : Kinds, at : Places, dict : Dicts, globals : Dicts, locals : Dicts]

TypeOK ==
  /\ cs \in Seq(Activation) /\ Depth > 0
  /\ nlr_top \in Seq(Nat) /\ nlr_jump_callback_top \in Seq(Nat)
  /\ globals \in Dicts /\ locals \in Dicts
  /\ lexers \in Nat /\ script \in BOOLEAN

InBuf == {"run", "guarded", "ran"}
Bufs == {p \in 1 .. Depth : cs[p].at \in InBuf}
Callbacks == {p \in 1 .. Depth : cs[p].kind \in {"exec", "parse"}}

(* The members of S in ascending order. *)
Lists(s, S) ==
  /\ \A i \in 1 .. Len(s) : s[i] \in S
  /\ \A p \in S : \E i \in 1 .. Len(s) : s[i] = p
  /\ \A i, j \in 1 .. Len(s) : i < j => s[i] < s[j]

(* The two chains lead through exactly the activations on the C stack that *)
(* pushed on them and have not popped, in order: nlr_jump never returns    *)
(* into an activation that is gone, and no callback in a dead frame runs.  *)
ChainsMatchStack ==
  Lists(nlr_top, Bufs) /\ Lists(nlr_jump_callback_top, Callbacks)

(* Python code always runs with the globals of its own module, also when   *)
(* it catches an exception from code that another module's globals or an   *)
(* exec with other dictionaries were in force for.                         *)
RunsInItsOwnGlobals ==
  (\/ Top.kind = "call" /\ Top.at \in {"run", "caught"}
   \/ Top.kind = "exec" /\ Top.at # "parse") => globals = Top.dict

(* Back at the prompt nothing is left of the line that ran, however it     *)
(* ended: the globals are __main__'s, both chains are empty and every      *)
(* lexer that was handed out was freed, once.  The locals need not be      *)
(* __main__'s: see LinesKeepTheLocals.                                     *)
PromptIsClean ==
  Is("repl", "prompt") =>
    /\ globals = Main
    /\ nlr_top = << >> /\ nlr_jump_callback_top = << >> /\ lexers = 0

(* No script and no line changes the locals that the next line will start  *)
(* with, whatever classes it leaves half-built and whichever exceptions it *)
(* catches on the way: mp_parse_compile_execute gives them back.  Only the *)
(* printing of an exception can change them, since no exec is below it: a  *)
(* __repr__ that catches an exception from a class body does.  While a     *)
(* line runs, its exec is the second activation.                           *)
PromptLocals ==
  IF Depth > 1 /\ cs[2].kind = "exec" THEN cs[2].locals ELSE locals
Printing == Depth > 1 /\ cs[2].kind = "print"
LinesKeepTheLocals == [][Printing]_PromptLocals

(* "restore old __locals__ object" (py/modbuiltins.c): the names that a    *)
(* line or the script assigns are __main__'s.  The code does not keep      *)
(* this, by an exception that leaves a class body.                         *)
LinesAssignInMain ==
  Depth = 3 /\ cs[2].kind = "exec" /\ Is("call", "run") => locals = Main

(* An exception stops the machine in nlr_jump_fail only when it was raised *)
(* while another one is being printed; whatever the script or a line at    *)
(* the prompt raises, at any depth, is printed.                            *)
OnlyPrintingIsFatal ==
  Top.at = "fatal" => \E p \in 1 .. Depth : cs[p].kind = "print"

(* The check in fun_bc_call bounds the C stack, though exec and the parser *)
(* are not checked themselves.                                             *)
StackIsBounded == Depth <= stack_limit + 2

(* What makes these inductive.  Activation g was called by f, and saved    *)
(* the globals that f runs with.                                           *)
CalledBy(f, g) ==
  /\ g.globals = f.dict
  /\ \/ f.kind = "repl" /\ f.at = "ran" /\ g.kind = "exec"
     \/ f.kind = "repl" /\ f.at = "prompt" /\ g.kind = "print" /\ g.dict = f.dict
     \/ f.kind = "exec" /\ f.at = "compile" /\ g.kind = "parse" /\ g.dict = f.dict
     \/ f.kind = "exec" /\ f.at = "done" /\ g.kind = "call"
     \/ f.kind = "call" /\ f.at = "run" /\ g.kind \in {"call", "exec"}
     \/ f.kind = "call" /\ f.at = "run" /\ g.kind = "class" /\ g.dict = f.dict
     \/ f.kind = "class" /\ f.at \in {"body", "meta"} /\ g.kind = "call"
     \/ f.kind = "print" /\ f.at = "print" /\ g.kind = "call"

StackIsNested ==
  /\ cs[1].kind = "repl" /\ cs[1].dict = Main
  /\ \A p \in 1 .. Depth - 1 : CalledBy(cs[p], cs[p + 1])

(* Where the activation on top can be. *)
TopIsRunning ==
  \/ Top.kind = "repl" /\ Top.at \in {"start", "prompt", "guarded", "ran", "caught"}
  \/ Top.kind = "exec" /\ Top.at \in {"parse", "compile", "call", "done"}
  \/ Top.kind = "parse" /\ Top.at = "parse"
  \/ Top.kind = "call" /\ Top.at \in {"run", "caught", "raise"}
  \/ Top.kind = "class" /\ Top.at \in {"body", "meta"}
  \/ Top.kind = "print" /\ Top.at = "print"
  \/ Top.kind \in {"call", "print"} /\ Top.at = "fatal"

ContextIsTops ==
  /\ Top.at \notin {"raise", "fatal"} => globals = Top.dict
  /\ Top.at = "raise" => globals = Top.globals

LexersAreCounted ==
  lexers = IF Top.kind = "parse" \/ (Top.kind = "exec" /\ Top.at = "parse")
           THEN 1 ELSE 0

RoomIsLeft ==
  \A p \in 1 .. Depth :
    /\ cs[p].kind = "call" => p <= stack_limit
    /\ cs[p].kind \in {"exec", "class", "print"} => p <= stack_limit + 1
    /\ cs[p].kind = "parse" => p <= stack_limit + 2

ReplInv ==
  /\ TypeOK /\ ChainsMatchStack /\ StackIsNested /\ TopIsRunning /\ ContextIsTops
  /\ LexersAreCounted /\ RoomIsLeft /\ OnlyPrintingIsFatal
=============================================================================

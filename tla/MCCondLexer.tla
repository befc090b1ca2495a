---------------------------- MODULE MCCondLexer ----------------------------
(***************************************************************************)
(* Instances of CondLexer: one setting, an include file that leaves a      *)
(* conditional open, and one that sets something and ends a conditional    *)
(* it did not open.                                                        *)
(***************************************************************************)
EXTENDS CondLexer, TLC

MCSettings == {"S"}
Test(b) == [kind |-> "test", setting |-> "S", want |-> b]
Never(k) == [kind |-> k, setting |-> "S", want |-> TRUE]
If(c) == [op |-> "if", cond |-> c]
ElIf(c) == [op |-> "elseif", cond |-> c]
Put(b) == [op |-> "set", setting |-> "S", value |-> b]
Just(o) == [op |-> o]
Inc(f) == [op |-> "include", file |-> f]

MCIncluded ==
  "opens" :> <<Just("token"), If(Test(TRUE)), Just("token")>>
  @@ "closes" :> <<Put(TRUE), Just("endif"), Just("token")>>

\* Tokens, settings and branches, conditions that never hold or are malformed,
\* faults, and includes of these files and of one that is missing.
MCItems ==
  {If(Test(TRUE)), If(Test(FALSE)), If(Never("untracked")), If(Never("bad")),
   ElIf(Test(TRUE)), ElIf(Never("bad")),
   Just("else"), Just("endif"), Put(TRUE), Just("token"),
   Just("error"), Just("badliteral"),
   Inc("missing"), Inc("opens"), Inc("closes")}
=============================================================================

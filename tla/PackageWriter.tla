---------------------------- MODULE PackageWriter ---------------------------
(***************************************************************************)
(* What a package writer promises its caller, whatever it is made of: a     *)
(* call of Write that succeeds has put out a whole package, and if it is    *)
(* the first one, the package is a function of what the caller has set.     *)
(* A call that fails has put out no package; every call ends.               *)
(***************************************************************************)
EXTENDS Naturals

CONSTANTS
  Contents(_),       \* whether a value is what a caller can have set
  PackageOf(_),      \* the package that is to be written for it
  NoPackage          \* an output that is not a package

VARIABLES
  content,           \* what the caller has set
  writing,           \* whether a call of Write is running
  calls,             \* the number of calls so far
  result,            \* of the last call: "none" while it runs
  package            \* what the last call put out

vars == <<content, writing, calls, result, package>>

Init ==
  /\ Contents(content)
  /\ writing = FALSE
  /\ calls = 0
  /\ result = "none"
  /\ package = NoPackage

\* The caller sets something, between the calls of Write.
Change ==
  /\ ~writing
  /\ Contents(content')
  /\ UNCHANGED <<writing, calls, result, package>>

Begin ==
  /\ ~writing
  /\ writing' = TRUE
  /\ calls' = calls + 1
  /\ result' = "none"
  /\ package' = NoPackage
  /\ UNCHANGED content

\* A later call may be refused at once.
Refuse ==
  /\ ~writing
  /\ calls > 0
  /\ calls' = calls + 1
  /\ result' = "error"
  /\ package' = NoPackage
  /\ UNCHANGED <<content, writing>>

Fail ==
  /\ writing
  /\ writing' = FALSE
  /\ result' = "error"
  /\ UNCHANGED <<content, calls, package>>

\* The package of a later call depends on what the failed ones left.
Deliver ==
  /\ writing
  /\ writing' = FALSE
  /\ result' = "ok"
  /\ package' # NoPackage
  /\ calls = 1 => package' = PackageOf(content)
  /\ UNCHANGED <<content, calls>>

Next == Change \/ Begin \/ Refuse \/ Fail \/ Deliver

\* Weak fairness of Fail \/ Deliver, which is enabled as long as a call runs
\* and ends it.
Ends == []<>(~writing)

Spec == Init /\ [][Next]_vars /\ Ends
=============================================================================

---------------------------- MODULE FixedFunction ----------------------------
(***************************************************************************)
(* common/FixedFunction.h: objects that own a callable in a buffer of      *)
(* their own, and give it away by moving.                                  *)
(***************************************************************************)
EXTENDS FiniteSets

CONSTANTS
  FixedFunctions,  \* the objects
  Callables,
  Nothing          \* what an empty buffer holds

ASSUME CallablesAssumption == Nothing \notin Callables

VARIABLES
  functions,    \* the objects that have been constructed
  mFnInvoker,   \* the objects whose three function pointers are set
  mStorage,     \* the callable in each buffer
  callables     \* the callables that have been constructed

functionVars == <<functions, mFnInvoker, mStorage, callables>>

FunctionInit ==
  /\ functions = {}
  /\ mFnInvoker = {}
  /\ mStorage = [f \in FixedFunctions |-> Nothing]
  /\ callables = {}

\* mFnDestructor: what the pointers of f, if they are set, do to its buffer.
Destroyed(f) == IF f \in mFnInvoker THEN {mStorage[f]} ELSE {}

\* FixedFunction(Func&&)
Construct(f, c) ==
  /\ f \notin functions /\ c \notin callables
  /\ functions' = functions \cup {f}
  /\ mFnInvoker' = mFnInvoker \cup {f}
  /\ mStorage' = [mStorage EXCEPT ![f] = c]
  /\ callables' = callables \cup {c}

\* FixedFunction()
ConstructEmpty(f) ==
  /\ f \notin functions
  /\ functions' = functions \cup {f}
  /\ UNCHANGED <<mFnInvoker, mStorage, callables>>

\* move_from() of g into f, whose own pointers and buffers are these.
move_from(f, g, pointers, buffers) ==
  IF g \in mFnInvoker
    THEN /\ mFnInvoker' = (pointers \cup {f}) \ {g}
         /\ mStorage' = [buffers EXCEPT ![f] = mStorage[g], ![g] = Nothing]
    ELSE mFnInvoker' = pointers /\ mStorage' = buffers

\* FixedFunction(FixedFunction&&)
MoveConstruct(f, g) ==
  /\ f \notin functions /\ g \in functions
  /\ functions' = functions \cup {f}
  /\ move_from(f, g, mFnInvoker, mStorage)
  /\ UNCHANGED callables

\* Mutant of MoveAssign: what f held is not destroyed.
MoveAssignOver(f, g) ==
  /\ f \in functions /\ g \in functions /\ f # g
  /\ move_from(f, g, mFnInvoker, mStorage)
  /\ UNCHANGED <<functions, callables>>

\* operator=(FixedFunction&&); nothing happens if f is g.
MoveAssign(f, g) ==
  /\ f \in functions /\ g \in functions /\ f # g
  /\ callables' = callables \ Destroyed(f)
  /\ move_from(f, g, mFnInvoker \ {f}, [mStorage EXCEPT ![f] = Nothing])
  /\ UNCHANGED functions

\* reset(), alone and in the destructor
Reset(f) ==
  /\ callables' = callables \ Destroyed(f)
  /\ mFnInvoker' = mFnInvoker \ {f}
  /\ mStorage' = [mStorage EXCEPT ![f] = Nothing]

ResetFunction(f) == f \in functions /\ Reset(f) /\ UNCHANGED functions

Destruct(f) == f \in functions /\ Reset(f) /\ functions' = functions \ {f}

FunctionNext ==
  \E f \in FixedFunctions :
    \/ \E c \in Callables : Construct(f, c)
    \/ \E g \in FixedFunctions : MoveConstruct(f, g) \/ MoveAssign(f, g)
    \/ ConstructEmpty(f) \/ ResetFunction(f) \/ Destruct(f)

FunctionSpec == FunctionInit /\ [][FunctionNext]_functionVars

-------------------------------------------------------------------------------
(* Properties *)

\* Every callable that exists is in the buffer of one living object, which can
\* call it, and whoever can call holds a callable that exists: no callable is
\* leaked, destroyed twice, or called after it has been moved away.
CallablesOwned ==
  /\ mFnInvoker \subseteq functions
  /\ \A f \in FixedFunctions :
       IF f \in mFnInvoker THEN mStorage[f] \in callables ELSE mStorage[f] = Nothing
  /\ \A c \in callables : Cardinality({f \in mFnInvoker : mStorage[f] = c}) = 1
===============================================================================

------------------------------ MODULE Library ------------------------------
(***************************************************************************)
(* The predefined routines.  Each is described three times, by hand: its   *)
(* header for semantic analysis, its LLVM type and pass modes for code     *)
(* generation, and its definition in libs.c.  The reading routines share   *)
(* the standard input; readString is followed step by step.                *)
(*                                                                         *)
(* A character is a letter, a digit or one of the three the code treats    *)
(* apart: the newline, the byte 0 and the byte 255, which is EOF once it   *)
(* has been stored in a char.                                              *)
(***************************************************************************)
EXTENDS Types, SequencesExt

CONSTANTS
  Letters,    \* ordinary characters
  MaxInput,   \* bound on the length of the input
  Sizes,      \* the sizes readString is called with
  MaxCalls    \* bound on the number of calls

ASSUME InputAssumption == MaxInput \in Nat
ASSUME SizesAssumption == Sizes \subseteq Int

Newline == "newline"
Nul == "nul"
Byte255 == "byte 255"
Digit == "digit"
Characters == Letters \cup {Newline, Nul, Byte255, Digit}

VARIABLES
  input,   \* what is left of the standard input
  pc,      \* where readString is, "idle" outside it
  size,    \* its local variables and its parameter s, the bytes of which
  i,       \* are kept up to the terminator
  c,
  buf,
  s,
  calls,   \* calls made so far
  taken,   \* history: the characters this readString has taken
  lost,    \* history: characters taken that no call has delivered
  tidy,    \* history: every readString came after a number that ended its
           \* line, and met no byte 0
  passed   \* the last call of another routine: its name and the types passed

vars == <<input, pc, size, i, c, buf, s, calls, taken, lost, tidy, passed>>

-----------------------------------------------------------------------------
(* The three descriptions                                                  *)

ByValue(t) == [type |-> t, byValue |-> TRUE]
ByReference(t) == [type |-> t, byValue |-> FALSE]
Routine(parameters, result) == [parameters |-> parameters, result |-> result]

RealFunctions == {"fabs", "sqrt", "sin", "cos", "tan", "arctan", "exp", "ln"}

(* Program::semantic_initialize. *)
SemanticHeader(f) ==
  CASE f = "writeInteger"    -> Routine(<<ByValue(typeInteger)>>, typeVoid)
    [] f = "writeChar"       -> Routine(<<ByValue(typeChar)>>, typeVoid)
    [] f = "writeReal"       -> Routine(<<ByValue(typeReal)>>, typeVoid)
    [] f = "writeBoolean"    -> Routine(<<ByValue(typeBoolean)>>, typeVoid)
    [] f = "writeString"     -> Routine(<<ByReference(typeIArray(typeChar))>>, typeVoid)
    [] f = "readInteger"     -> Routine(<< >>, typeInteger)
    [] f = "readChar"        -> Routine(<< >>, typeChar)
    [] f = "readReal"        -> Routine(<< >>, typeReal)
    [] f = "readBoolean"     -> Routine(<< >>, typeBoolean)
    [] f = "readString"      -> Routine(<<ByValue(typeInteger), ByReference(typeIArray(typeChar))>>, typeVoid)
    [] f = "abs"             -> Routine(<<ByValue(typeInteger)>>, typeInteger)
    [] f \in RealFunctions   -> Routine(<<ByValue(typeReal)>>, typeReal)
    [] f = "pi"              -> Routine(<< >>, typeReal)
    [] f = "ord"             -> Routine(<<ByValue(typeChar)>>, typeInteger)
    [] f = "chr"             -> Routine(<<ByValue(typeInteger)>>, typeChar)
    [] f \in {"trunc", "round"} -> Routine(<<ByValue(typeReal)>>, typeInteger)

Routines ==
  {"writeInteger", "writeChar", "writeReal", "writeBoolean", "writeString",
   "readInteger", "readChar", "readReal", "readBoolean", "readString", "abs",
   "pi", "ord", "chr", "trunc", "round"} \cup RealFunctions

Entry(symbol, result, types, modes, sems) ==
  [symbol |-> symbol, result |-> result, types |-> types, arguments |-> modes, sems |-> sems]

V == "PASS_BY_VALUE"
R == "PASS_BY_REFERENCE"

(* Program::add_libs_llvm.  The entry of pi has an argument its type has   *)
(* not.                                                                    *)
LlvmEntry(f) ==
  LET real == typeReal  int == typeInteger  str == typePointer(typeChar)
  IN CASE f = "writeInteger"  -> Entry(f, typeVoid, <<int>>, <<V>>, <<int>>)
       [] f = "writeBoolean"  -> Entry(f, typeVoid, <<typeBoolean>>, <<V>>, <<typeBoolean>>)
       [] f = "writeChar"     -> Entry(f, typeVoid, <<typeChar>>, <<V>>, <<typeChar>>)
       [] f = "writeReal"     -> Entry(f, typeVoid, <<real>>, <<V>>, <<real>>)
       [] f = "writeString"   -> Entry(f, typeVoid, <<str>>, <<R>>, <<typeIArray(typeChar)>>)
       [] f = "readInteger"   -> Entry(f, int, << >>, << >>, << >>)
       [] f = "readBoolean"   -> Entry(f, typeBoolean, << >>, << >>, << >>)
       [] f = "readChar"      -> Entry(f, typeChar, << >>, << >>, << >>)
       [] f = "readReal"      -> Entry(f, real, << >>, << >>, << >>)
       [] f = "readString"    -> Entry(f, typeVoid, <<int, str>>, <<V, R>>, <<int, typeIArray(typeChar)>>)
       [] f = "abs"           -> Entry(f, int, <<int>>, <<V>>, <<int>>)
       [] f \in RealFunctions -> Entry(f, real, <<real>>, <<V>>, <<real>>)
       [] f = "pi"            -> Entry(f, real, << >>, <<V>>, <<real>>)
       [] f = "ord"           -> Entry(f, int, <<typeChar>>, <<V>>, <<typeChar>>)
       [] f = "chr"           -> Entry(f, typeChar, <<int>>, <<V>>, <<int>>)
       [] f = "trunc"         -> Entry("truncFunc", int, <<real>>, <<V>>, <<real>>)
       [] f = "round"         -> Entry("roundFunc", int, <<real>>, <<V>>, <<real>>)

(* What the C definition of a symbol takes and returns; abs, and the       *)
(* functions of libm called by their own names, are as in the C library.   *)
CPrototype(symbol) ==
  CASE symbol \in {"writeInteger", "writeBoolean", "writeChar"} -> <<"void", <<"int">>>>
    [] symbol = "writeReal"                       -> <<"void", <<"double">>>>
    [] symbol = "writeString"                     -> <<"void", <<"char*">>>>
    [] symbol \in {"readInteger", "readBoolean"}  -> <<"int", << >>>>
    [] symbol = "readChar"                        -> <<"char", << >>>>
    [] symbol = "readReal"                        -> <<"double", << >>>>
    [] symbol = "readString"                      -> <<"char*", <<"int", "char*">>>>
    [] symbol = "abs"                             -> <<"int", <<"int">>>>
    [] symbol \in RealFunctions                   -> <<"double", <<"double">>>>
    [] symbol = "pi"                              -> <<"double", << >>>>
    [] symbol = "ord"                             -> <<"int", <<"char">>>>
    [] symbol = "chr"                             -> <<"char", <<"int">>>>
    [] symbol \in {"truncFunc", "roundFunc"}      -> <<"int", <<"double">>>>

(* A C type that the calling convention passes where an LLVM type is       *)
(* passed: in the same register, the narrower in its low bits.             *)
SameRegister(t, cType) ==
  CASE Kind(t) \in {"integer", "boolean", "char"} -> cType \in {"int", "char"}
    [] Kind(t) = "real"                           -> cType = "double"
    [] Kind(t) = "pointer"                        -> cType = "char*"
    [] OTHER                                      -> FALSE

(* A mutation of Passed: references are passed as the values they are to. *)
PassedByValue(f) ==
  IF SemanticHeader(f).parameters = << >> THEN << >>
  ELSE [k \in DOMAIN LlvmEntry(f).arguments |-> TypeConvert(LlvmEntry(f).sems[k])]

(* create_call: one value for every entry of arguments, unless the call    *)
(* has no parameters at all.                                               *)
Passed(f) ==
  LET e == LlvmEntry(f)
  IN  IF SemanticHeader(f).parameters = << >> THEN << >>
      ELSE [k \in DOMAIN e.arguments |->
              IF e.arguments[k] = R THEN typePointer(TypeConvert(e.sems[k]))
              ELSE TypeConvert(e.sems[k])]

-----------------------------------------------------------------------------
(* The input                                                               *)

Init ==
  /\ input \in UNION { [1 .. n -> Characters] : n \in 0 .. MaxInput }
  /\ pc = "idle" /\ size = 0 /\ i = 0 /\ c = Nul
  /\ buf = << >> /\ s = << >> /\ taken = << >>
  /\ calls = 0 /\ lost = {} /\ tidy = TRUE
  /\ passed = <<"none", << >>>>

Idle == pc = "idle" /\ calls < MaxCalls

(* A call of a routine that reads nothing.  Bound: these calls are tried   *)
(* when the input is used up only, as they do not touch it.                *)
CallOther(f) ==
  /\ Idle /\ input = << >> /\ f \notin {"readString", "readInteger", "readReal", "readBoolean", "readChar"}
  /\ passed' = <<f, Passed(f)>>
  /\ calls' = calls + 1
  /\ UNCHANGED <<input, pc, size, i, c, buf, s, taken, lost, tidy>>

DigitsFrom(k) ==
  { n \in k .. Len(input) : \A m \in k .. n : input[m] = Digit }

(* readInteger, readReal, readBoolean: scanf skips white space, takes the  *)
(* digits that follow and leaves the rest.  If there are none the variable *)
(* is returned as it was, uninitialised.                                   *)
ReadNumber ==
  /\ Idle
  /\ LET blank == { k \in 1 .. Len(input) : \A m \in 1 .. k : input[m] = Newline }
         first == Cardinality(blank) + 1
         last == Cardinality(blank) + Cardinality(DigitsFrom(first))
     IN  /\ input' = SubSeq(input, last + 1, Len(input))
         /\ tidy' = (tidy /\ last >= first)
  /\ passed' = <<"readInteger", Passed("readInteger")>>
  /\ calls' = calls + 1
  /\ UNCHANGED <<pc, size, i, c, buf, s, taken, lost>>

(* readChar: the next character, whatever it is. *)
ReadChar ==
  /\ Idle
  /\ input' = IF input = << >> THEN input ELSE Tail(input)
  /\ tidy' = FALSE
  /\ passed' = <<"readChar", Passed("readChar")>>
  /\ calls' = calls + 1
  /\ UNCHANGED <<pc, size, i, c, buf, s, taken, lost>>

-----------------------------------------------------------------------------
(* readString                                                              *)

(* getchar, as stored in a char. *)
Getchar ==
  /\ c' = IF input = << >> THEN Byte255 ELSE Head(input)
  /\ taken' = IF input = << >> THEN taken ELSE Append(taken, Head(input))
  /\ input' = IF input = << >> THEN input ELSE Tail(input)

Zeroes(n) == [k \in 1 .. n |-> Nul]

(* A mutation of ReadString: the size is not decremented. *)
ReadStringWhole(n) ==
  /\ Idle
  /\ calls' = calls + 1
  /\ passed' = <<"readString", Passed("readString")>>
  /\ IF n <= 1 THEN UNCHANGED <<pc, size, buf, taken, tidy>>
     ELSE /\ pc' = "first"
          /\ buf' = Zeroes(n)
          /\ size' = n
          /\ taken' = << >>
          /\ tidy' = (tidy /\ passed[1] = "readInteger" /\ input # << >> /\ Head(input) = Newline)
  /\ UNCHANGED <<input, i, c, s, lost>>

(* The entry: a size of 0, of 1 or below leaves s as it is.                *)
ReadString(n) ==
  /\ Idle
  /\ calls' = calls + 1
  /\ passed' = <<"readString", Passed("readString")>>
  /\ IF n <= 1 THEN UNCHANGED <<pc, size, buf, taken, tidy>>
     ELSE /\ pc' = "first"
          /\ buf' = Zeroes(n)
          /\ size' = n - 1
          /\ taken' = << >>
          /\ tidy' = (tidy /\ passed[1] = "readInteger" /\ input # << >> /\ Head(input) = Newline)
  /\ UNCHANGED <<input, i, c, s, lost>>

(* A mutation of ReadFirst: the loop goes on where the last one stopped. *)
ReadFirstGoingOn ==
  /\ pc = "first"
  /\ Getchar
  /\ buf' = [buf EXCEPT ![1] = c']
  /\ lost' = IF input = << >> THEN lost ELSE lost \cup {Head(input)}
  /\ pc' = "loop"
  /\ UNCHANGED <<size, i, s, calls, tidy, passed>>

(* The character read before the loop goes where the loop puts its first.  *)
ReadFirst ==
  /\ pc = "first"
  /\ Getchar
  /\ buf' = [buf EXCEPT ![1] = c']
  /\ lost' = IF input = << >> THEN lost ELSE lost \cup {Head(input)}
  /\ i' = 0
  /\ pc' = "loop"
  /\ UNCHANGED <<size, s, calls, tidy, passed>>

(* A mutation of ReadNext: an end of file is waited for, not acted upon. *)
ReadNextUntilNewline ==
  /\ pc = "loop"
  /\ IF i >= size THEN pc' = "copy" /\ UNCHANGED <<input, c, taken, buf, i>>
     ELSE /\ Getchar
          /\ buf' = [buf EXCEPT ![i + 1] = c']
          /\ IF c' = Newline THEN pc' = "copy" /\ UNCHANGED i
             ELSE i' = (IF c' = Byte255 THEN i ELSE i + 1) /\ UNCHANGED pc
  /\ UNCHANGED <<size, s, calls, lost, tidy, passed>>

(* A mutation of ReadNext: a character is read before the room is checked. *)
ReadNextTooFar ==
  /\ pc = "loop"
  /\ Getchar
  /\ IF i >= size \/ c' \in {Byte255, Newline} THEN pc' = "copy" /\ UNCHANGED i
     ELSE i' = i + 1 /\ UNCHANGED pc
  /\ buf' = IF i >= size THEN buf ELSE [buf EXCEPT ![i + 1] = c']
  /\ UNCHANGED <<size, s, calls, lost, tidy, passed>>

(* One turn of the loop: the character is stored before it is looked at.   *)
ReadNext ==
  /\ pc = "loop"
  /\ IF i >= size THEN pc' = "copy" /\ UNCHANGED <<input, c, taken, buf, i>>
     ELSE /\ Getchar
          /\ buf' = [buf EXCEPT ![i + 1] = c']
          /\ IF c' \in {Byte255, Newline} THEN pc' = "copy" /\ UNCHANGED i
             ELSE i' = i + 1 /\ UNCHANGED pc
  /\ UNCHANGED <<size, s, calls, lost, tidy, passed>>

(* strcpy: up to the first terminator; it reads on if buf has none.        *)
UpToNul(b) ==
  LET nuls == { k \in DOMAIN b : b[k] = Nul }
  IN  IF nuls = {} THEN b ELSE SubSeq(b, 1, Min(nuls) - 1)

Copy ==
  /\ pc = "copy"
  /\ s' = UpToNul(buf)
  /\ lost' = lost \cup ToSet(SubSeq(taken, Len(s') + 2, Len(taken)))
  /\ tidy' = (tidy /\ Nul \notin ToSet(taken))
  /\ pc' = "idle"
  /\ UNCHANGED <<input, size, i, c, buf, calls, taken, passed>>

Running == ReadFirst \/ ReadNext \/ Copy

Next ==
  \/ \E f \in Routines : CallOther(f)
  \/ ReadNumber
  \/ ReadChar
  \/ \E n \in Sizes : ReadString(n)
  \/ ReadFirst
  \/ ReadNext
  \/ Copy

Spec == Init /\ [][Next]_vars /\ WF_vars(Running)

-----------------------------------------------------------------------------
(* Properties                                                              *)

TypeOK ==
  /\ pc \in {"idle", "first", "loop", "copy"}
  /\ c \in Characters /\ ToSet(buf) \cup ToSet(s) \cup ToSet(input) \subseteq Characters
  /\ pc = "loop" => i \in 0 .. size
  /\ tidy \in BOOLEAN

(* readString writes no byte of s beyond the size it was given, the        *)
(* terminator included, and leaves a terminator, whatever is typed.        *)
StaysInBuffer ==
  (pc = "copy" => Nul \in ToSet(buf) /\ Len(UpToNul(buf)) <= size)

(* A program that reads a number on a line of its own before every string  *)
(* gets every character typed: what readString drops is then the newline   *)
(* scanf left, and a string cut short by its size goes on in the input.    *)
(* Inputs with a byte 0, behind which strcpy drops the rest, are left out. *)
LinesArrive == tidy => lost \subseteq {Newline}

(* Every other call of a predefined routine passes what the header was     *)
(* accepted for, what its LLVM type takes and what its C definition reads, *)
(* and what comes back is what the header says.                            *)
CallsTyped ==
  passed[1] # "none" =>
    LET f == passed[1]
        e == LlvmEntry(f)
        h == SemanticHeader(f)
        proto == CPrototype(e.symbol)
    IN  /\ passed[2] = e.types
        /\ Len(e.types) = Len(h.parameters) /\ Len(e.types) = Len(proto[2])
        /\ \A k \in DOMAIN e.types :
             /\ SameRegister(e.types[k], proto[2][k])
             /\ e.types[k] = IF h.parameters[k].byValue THEN TypeConvert(h.parameters[k].type)
                             ELSE typePointer(TypeConvert(h.parameters[k].type))
        /\ e.result = h.result
        /\ h.result = typeVoid \/ SameRegister(e.result, proto[1])

(* Every call of readString returns, at the end of the input too.          *)
CallsReturn == pc # "idle" ~> pc = "idle"
=============================================================================

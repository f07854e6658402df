------------------------------ MODULE MCValues ------------------------------
(* Expressions and conversions in one run: a behaviour builds an           *)
(* expression, or gives a value to a variable.                             *)
EXTENDS MCExpressions, MCConversions

NoConversion ==
  /\ how = "none" /\ expr = "none" /\ pc = "none"
  /\ dest = typeVoid /\ source = typeVoid /\ value = NoValue

ValuesInit == Init /\ (NoConversion \/ Begin)

ValuesNext ==
  \/ NoConversion /\ Next /\ UNCHANGED conversion
  \/ Step /\ UNCHANGED vars

Values == ValuesInit /\ [][ValuesNext]_<<vars, conversion>>
=============================================================================

------------------------------- MODULE MCTable -------------------------------
(* A small instance of Table: three rows, two columns with equal texts, one   *)
(* without a value, and filters that hide some of the rows.                   *)
EXTENDS Table, TLC

CONSTANTS name, count, few, many, none

TwoColumns == {name, count}
ThreeRows == 1..3
ThreeTexts == {few, many, none}
SomeCells ==
  << name :> few @@ count :> many, name :> many @@ count :> none, name :> few @@ count :> few >>
Places == few :> 1 @@ many :> 2 @@ none :> Null
SomeQueries == {NoQuery, few, many}
Containing == NoQuery :> ThreeTexts @@ few :> {few} @@ many :> {few, many}

(* Rows come and go; the VMs and clusters of a vCenter are in the order in     *)
(* which it returned them, which may be another at each round.                *)
AnyOrder == {s \in UNION {[1..n -> ThreeRows] : n \in 0..3} :
               IsInjective(s) /\ Len(s) # 1}
=============================================================================

------------------------------ MODULE AtomicStore ------------------------------
(***************************************************************************)
(* What serializer/serializer.hpp promises of a serializer, whatever its   *)
(* extents and its collector do: index writes take effect one by one and   *)
(* become durable in that order, and a crash loses a suffix of them and    *)
(* nothing else.                                                           *)
(***************************************************************************)
EXTENDS Sequences

CONSTANT AContent     \* the contents of the store

VARIABLES
  aNow,         \* the content
  aLine,        \* the contents that are on their way to the disk
  aDurable      \* the content a crash leaves

aVars == <<aNow, aLine, aDurable>>

AInit == aNow \in AContent /\ aLine = <<>> /\ aDurable = aNow

\* An index write; one of the collector's leaves the content as it is
AWrite ==
  /\ aNow' \in AContent
  /\ aLine' = Append(aLine, aNow')
  /\ UNCHANGED aDurable

APersist ==
  /\ aLine # <<>>
  /\ aDurable' = Head(aLine)
  /\ aLine' = Tail(aLine)
  /\ UNCHANGED aNow

ACrash == aNow' = aDurable /\ aLine' = <<>> /\ UNCHANGED aDurable

ANext == AWrite \/ APersist \/ ACrash
ASpec == AInit /\ [][ANext]_aVars
================================================================================

----------------------------- MODULE MCSideBySide -----------------------------
(* Small instances of the seven parts of SideBySide.                       *)
EXTENDS SideBySide, TLC

\* Up to two washes, one of them completed for sure, at the first and the last
\* instant of a day and at the first of another; up to one time entry.
Instants == {m \in Midnights : m <= LastInstant} \cup {LastInstant}

SureWash == [id : {1}, employee : Employees, completed : {TRUE}, at : Instants, price : {1}, bonus : {1}]

AnyWash == [id : {2}, employee : Employees, completed : BOOLEAN, at : Instants, price : {1, 2}, bonus : {1}]

AnyEntry == [id : {1}, employee : Employees, in : Instants, running : BOOLEAN, worked : {1}]

MCWashes == {{}} \cup {{a, b} : a \in SureWash, b \in AnyWash}

MCEntries == {{}} \cup {{e} : e \in AnyEntry}

MCOwner == [s \in Slots |-> First]

\* One model value plays several parts, in different modules and alike in each.
Symmetry ==
  Permutations(Requests) \cup Permutations(Users) \cup Permutations(Pictures)
    \cup Permutations(Locales)
==============================================================================

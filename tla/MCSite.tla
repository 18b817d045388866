------------------------------- MODULE MCSite --------------------------------
(***************************************************************************)
(* Small instances of Site.                                                *)
(***************************************************************************)
EXTENDS Site

CONSTANTS w1, w2, e0, e1, a, k1, none, operator

\* Two requests for one wallet and one for another.
TwoForOne == [r \in Drips |-> IF r = 3 THEN w2 ELSE w1]
FewFunds  == 2 * (AMOUNT + TX_FEE) + RESERVE - 1
\* Files of the old layout: one of an email that does not submit again, and one that
\* cannot be read, of the email that does.
OldFile(n, email) ==
  [path |-> <<"old", email>>,
   entry |-> [email |-> email, content |-> a, id |-> -n, submittedAt |-> -n]]
TwoOldFiles == {OldFile(1, e0), OldFile(2, e1)}
BadPaths    == {OldFile(2, e1).path}
=============================================================================

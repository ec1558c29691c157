------------------------------- MODULE MCSite -------------------------------
(***************************************************************************)
(* Site with a browser, two users and two passwords.  An INSERT keeps one  *)
(* of each as it is.                                                       *)
(***************************************************************************)
EXTENDS Site

CONSTANTS b1, u1, u2, p1, p2

OneBrowser == {b1}
TwoUsers == {u1, u2}
TwoPasswords == {p1, p2}
Unquoted == {u1, p1}

=============================================================================

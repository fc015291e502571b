----------------------- MODULE MCLicensedUserManager -----------------------
(* Model checking of LicensedUserManager: the owner lists it is given. *)
EXTENDS LicensedUserManager

SeqsUpTo(S, n) == UNION {[1..k -> S] : k \in 0..n}

\* Every list of up to three addresses, the invalid ones included, and every
\* list of owners with at most two more entries than a uint8 counts.
AllLists == SeqsUpTo(Addr, 3) \union SeqsUpTo(Owner, MaxUint8 + 2)
=============================================================================

----------------------------- MODULE MCEndToEnd -----------------------------
(***************************************************************************)
(* TLC instance of EndToEnd, on the policies of MCBroker: a client asks    *)
(* for help, forgets the value of an option, or submits `id`.              *)
(***************************************************************************)
EXTENDS EndToEnd, MCBroker

Lines == {<<"-h">>, <<"--otp">>, <<"--", id>>}
Statuses == {0, -1}

=============================================================================

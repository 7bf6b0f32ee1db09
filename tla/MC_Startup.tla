--------------------------------- MODULE MC_Startup ---------------------------------
(* TLC instances of Startup: contents of the two PEM files. *)
EXTENDS Startup

Certificates == {<<>>, <<"certificate">>, <<"certificate", "garbled">>}

Pkcs8  == [kind |-> "pkcs8", usable |-> TRUE]
Rsa    == [kind |-> "rsa", usable |-> TRUE]
Broken == [kind |-> "pkcs8", usable |-> FALSE]

PrivateKeys == {<<>>, <<Pkcs8>>, <<Rsa>>, <<Rsa, Broken>>, <<Broken, Pkcs8>>, <<Rsa, Garbled>>}
=============================================================================

------------------------------ MODULE MCRouting -----------------------------
(* Config on instances for TLC.                                            *)
EXTENDS Config

Google == <<"google", "com">>

SomeLines ==
  {<<"prior", "GEOIP", "DOMAIN">>, <<"DOMAIN", Google, "out">>, <<"DOMAIN", Google, "REJECT">>,
   <<"DOMAIN", <<"+">> \o Google, "REJECT">>, <<"DOMAIN", <<"+", "com">>, "DIRECT">>,
   <<"ROUTE", "in", "out">>, <<"GEOIP", "CN", "DIRECT">>,
   <<"DEFAULT", "out">>, <<"DEFAULT", "out", "none">>, <<"domain", Google, "out">>}

SomeFlows ==
  [ingress : {"in", "tunin"}, country : {"CN", Nil}, name : {Nil}, path : {Nil},
   domain : {Nil, Google, <<"www">> \o Google, <<"google", "evil", "com">>}]

Egresses  == {<<"out">>, <<"out", "out">>}
Groups    == {<< >>, <<"out">>, <<"in">>}
Ingresses == {<<"in">>, <<"in", "in">>}
=============================================================================

----------------------------- MODULE MCNetworks -----------------------------
(***************************************************************************)
(* Networks for TLC: addresses of two bits, two sources whose tables       *)
(* disagree on a prefix, and databases that are not always there.          *)
(***************************************************************************)
EXTENDS Networks

MCAddresses == [1..2 -> {0, 1}]

MCASNDatabases == <<"asn">>

MCGeoDatabases == <<>>

ASN(number) == {<<"ASN", number>>}

Name(name) == {<<"Name", name>>}

MCFileTables == {{Network(<<0>>, ASN(1))}, {Network(<<>>, ASN(2))}}

MCSourceTables ==
  {{Network(<<>>, Name("a")), Network(<<0, 1>>, ASN(3))},
   {Network(<<0>>, Name("b")), Network(<<0, 1>>, ASN(4))}}

MCStatic == {Network(<<0, 0>>, Name("c")), Network(<<1, 1>>, ASN(5))}
=============================================================================

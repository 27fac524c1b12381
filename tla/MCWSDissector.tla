--------------------------- MODULE MCWSDissector ----------------------------
(***************************************************************************)
(* Messages with and without a framing header, of different lengths; two  *)
(* or three fill the request pipe, and an answer its pipe and stdout.      *)
(***************************************************************************)
EXTENDS WSDissector

MCMessages == {<<300, <<1, 2, 3>>>>, <<301, <<1>>>>, <<200, <<>>>>}
MCNotUtf8  == {<<301, <<1>>>>}
=============================================================================

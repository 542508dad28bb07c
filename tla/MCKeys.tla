------------------------------- MODULE MCKeys -------------------------------
(* All methods; time stamps whose words are just inside and just outside   *)
(* what reads as an entry of the payloads' 56, 72 and 104 bytes; recovery  *)
(* keys with the least and the greatest values and with carries.           *)
EXTENDS KeyHierarchy

AllMethods == {"AES_XTS_128", "AES_XTS_256", "AES_CBC_128", "AES_CBC_256"}

Stamps ==
  [low : {7, 8, 20, 73}, high : {4, 5}]
    \cup [low : {0, 56, 57, 72, 104, 105, 65535}, high : {5}]

Keys == {<<0, 1, 9, 10, 909, 8264, 49586, 65535>>, <<7, 7, 7, 7, 7, 7, 7, 7>>}
=============================================================================

----------------------------- MODULE MCMultipart -----------------------------
(* Two gateways: u1 runs on one without O_TMPFILE, u2 on one with it.         *)
EXTENDS Multipart

CONSTANTS u1, u2

MCUploaders == {u1, u2}
MCOTmpfile == {u2}
MCPatient == {u2}
MCOptions == {{"lock", "sse"}, {"props", "full"}, {"composite", "ssec"}}
=============================================================================

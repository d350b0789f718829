------------------------------- MODULE MCFtp -------------------------------
(* Ftp with the bounds given in the configurations.                        *)
EXTENDS Ftp
=============================================================================

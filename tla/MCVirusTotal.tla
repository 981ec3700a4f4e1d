---------------------------- MODULE MCVirusTotal ----------------------------
(* Four listed files of which one does not exist, and of which each run     *)
(* skips one or two.                                                        *)
EXTENDS VirusTotal

FourFiles == <<"a", "b", "missing", "c">>
ThreeFiles == {"a", "b", "c"}
OneOrTwo == {0, 1}
=============================================================================

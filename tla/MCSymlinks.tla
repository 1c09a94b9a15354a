----------------------------- MODULE MCSymlinks -----------------------------
(* The two tables of symlinks() as main.rs has them, two versions, and     *)
(* output directories as the firmware steps leave them, with and without  *)
(* entries some other hand put in the way.                                 *)
EXTENDS Symlinks, TLC

MCDirLinks ==
    << <<"tu104", "tu102">>, <<"tu106", "tu102">>, <<"tu117", "tu102">>,
       <<"ad103", "ad102">>, <<"ad104", "ad102">>, <<"ad106", "ad102">>,
       <<"ad107", "ad102">>, <<"ga103", "ga102">>, <<"ga104", "ga102">>,
       <<"ga106", "ga102">>, <<"ga107", "ga102">> >>

MCFileLinks ==
    << <<"tu116", "tu102", "bootloader">>, <<"tu116", "tu102", "gsp">>,
       <<"ga100", "tu102", "gsp">>, <<"ad102", "ga102", "gsp">> >>

MCVersions == {"535.113.01", "570.144"}

(* The firmware steps made tu116/gsp, ga100/gsp and ad102/gsp; nothing    *)
(* else of the farm exists.                                                 *)
Fresh == [p \in AllPaths |-> IF p \in {<<"tu116", "gsp">>, <<"ga100", "gsp">>,
                                       <<"ad102", "gsp">>} THEN Dir ELSE Absent]

(* The fresh directory, and the same with one foreign entry in the way:   *)
(* tu106/gsp a link elsewhere, ad104/gsp a real directory, ga107 a file,  *)
(* or ga100/gsp/gsp-570.144.bin a regular file.                            *)
MCInitFs ==
    { Fresh,
      [Fresh EXCEPT ![<<"tu106", "gsp">>] = LinkTo(Elsewhere)],
      [Fresh EXCEPT ![<<"ad104", "gsp">>] = Dir],
      [Fresh EXCEPT ![<<"ga107">>] = RegFile],
      [Fresh EXCEPT ![<<"ga100", "gsp", <<"gsp", "570.144">>>>] = RegFile] }
=============================================================================

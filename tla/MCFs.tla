---------------------------------- MODULE MCFs ----------------------------------
(***************************************************************************)
(* Fs on a small disk: "/bin/init", three clusters long; "/bin/EMPTY",     *)
(* which has none, and a classic name with an attribute byte of 0;         *)
(* "/longname", whose name takes two pieces and whose last cluster is      *)
(* full; "/.cfg", which nobody can ask for; and "/bin/none", which does    *)
(* not exist.  Long names straddle clusters of both directories, and the   *)
(* 11 table entries take three sectors.                                    *)
(***************************************************************************)
EXTENDS Fs

Lfn(n, piece, ends) == [lfn |-> TRUE, order |-> n, text |-> piece, ends |-> ends]
Ent(short, o, is_dir) ==
    [lfn |-> FALSE, text |-> short, object |-> o, dir |-> is_dir, ends |-> FALSE]

MCObjects == {"root", "bin", "init", "empty", "longname", "cfg", "none"}

MCDirs ==
    [root |-> <<Lfn(1, "bin", TRUE), Ent("BIN", "bin", TRUE), Ent("LABEL", NULL, FALSE),
                Lfn(2, "name", TRUE), Lfn(1, "long", FALSE), Ent("LONGNA~1", "longname", FALSE),
                Lfn(1, ".cfg", TRUE), Ent("CFG~1", "cfg", FALSE)>>,
     bin |-> <<Ent(".", "bin", TRUE), Ent("..", "root", TRUE),
               [Ent("EMPTY      ", "empty", FALSE) EXCEPT !.ends = TRUE],
               Lfn(1, "init", TRUE), Ent("INIT", "init", FALSE)>>]
MCDotted == {".", "..", ".cfg"}

MCSizes == [root |-> 0, bin |-> 0, init |-> 5, empty |-> 0, longname |-> 4, cfg |-> 0, none |-> 0]

MCPathOf ==
    [init |-> << <<"bin">>, <<"init">> >>, empty |-> << <<"bin">>, <<"EMPTY      ">> >>,
     longname |-> << <<"long", "name">> >>]

(* Somebody asks for the file that does not exist. *)
MCPathOfNone == [none |-> << <<"bin">>, <<"none">> >>]

(* Clusters 2 to 10, backwards, and dealt out in turn. *)
Placed(a, b, c, d) ==
    [root |-> a, bin |-> b, init |-> c, empty |-> << >>, longname |-> d, cfg |-> << >>,
     none |-> << >>]
MCLayouts ==
    {Placed(<<10, 9>>, <<8, 7>>, <<6, 5, 4>>, <<3, 2>>),
     Placed(<<5, 9>>, <<8, 3>>, <<10, 2, 6>>, <<4, 7>>)}

MCPoolSizes == <<4, 16>>

MCPartTypes == <<TRUE, FALSE, TRUE, FALSE>>
=================================================================================

--------------------------- MODULE MCParquetScan ---------------------------
(* Instances of the Parquet scan. *)
EXTENDS ParquetScan

(* Files with no, empty and non-empty row groups. *)
Contents == {<<>>, <<<<1, 2, 3>>, <<>>, <<3>>>>, <<<<2>>, <<1, 3>>, <<3, 3, 3>>, <<2, 2>>>>}
FileSet(slices) ==
    {[groups |-> c, from |-> s[1], to |-> s[2], slices |-> s[3]] : c \in Contents, s \in slices}

(* All pairs of files of which one or all slices are scanned. *)
TwoFiles == LET F == FileSet({<<0, 1, 1>>, <<1, 2, 2>>, <<1, 2, 3>>, <<4, 5, 5>>})
            IN  {<<>>} \cup {<<f>> : f \in F} \cup {<<f, g>> : f \in F, g \in F}

(* One file, scanned completely. *)
OneFile == {<<f>> : f \in FileSet({<<0, 1, 1>>})}

Point == {[lo |-> 2, hi |-> 2]}
=============================================================================

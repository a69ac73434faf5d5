----------------------------- MODULE MCTcbLookup -----------------------------
(* Two TDX configurations and a quote whose FMSPC is not known, which takes  *)
(* the path of the other platforms; a document with and one without an       *)
(* up-to-date level, each with SGX components that must not be read.         *)
EXTENDS TcbLookup

Level(tdx, sgx, status) == [tdx |-> tdx, sgx |-> sgx, status |-> status]

MCDocuments == {
    {Level(1, 9, "UpToDate"), Level(2, 9, "OutOfDate"), Level(None, 9, "UpToDate")},
    {Level(1, 9, "OutOfDate"), Level(2, None, "OutOfDate")}
}

MCSources == {<<IntelTDX, "a">>, <<IntelTDX, "b">>, <<IntelTDX, NoFmspc>>}
=============================================================================

------------------------------ MODULE MCWorkbench ------------------------------
(***************************************************************************)
(* Instance of Workbench for TLC.                                          *)
(***************************************************************************)
EXTENDS Workbench, TLC

CONSTANTS t1, t2, small, big, uhd

Card(name, vendor, memory) == [name |-> name, basic |-> FALSE, vendor |-> vendor, memory |-> memory]
Key(description, memory)   == [description |-> description, memory |-> memory]

\* A workstation with two cards of one family, whose names contain each other; the same
\* when it is busy and its disk is almost full, with a registry key that has no
\* description; and a machine without Windows whose disk is full.
Workstation ==
    [windows |-> TRUE, cores |-> 16, available |-> 3200, free |-> 90000,
     adapters |-> <<[Card(uhd, "Intel", 2000) EXCEPT !.basic = TRUE],
                    Card(uhd, "Intel", 2000), Card(small, "NVIDIA", 600), Card(big, "NVIDIA", 1200)>>,
     keys |-> {Key(uhd, 2000), Key(small, 600), Key(big, 1200)}]
Busy   == [Workstation EXCEPT !.available = 400, !.free = 700, !.keys = {Key(Undescribed, 1200)}]
Server == [Workstation EXCEPT !.windows = FALSE, !.cores = 0, !.free = 3]
MCMachines == {Workstation, Busy, Server}

MCOverlaps == {<<small, big>>}

License(signed, expires, edition) == [signed |-> signed, expires |-> expires, edition |-> edition]
MCLicenses ==
    {NoLicense, Undecodable, License(TRUE, 0, "pro"), License(TRUE, Malformed, "enterprise")}

MCWorlds == {<<Workstation, License(TRUE, 0, "pro")>>, <<Server, License(TRUE, Malformed, "enterprise")>>}

Heavy       == [DefaultTraining EXCEPT !.batch = 4, !.mixed = TRUE]
MCTrainings == {DefaultTraining, Heavy}
MCRequests  == {[training |-> DefaultTraining, context |-> NoContext],
                [training |-> Heavy, context |-> 2048]}
=============================================================================

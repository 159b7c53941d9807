----------------------- MODULE MCLocalDeviceCatalogue -----------------------
(* Model-checking instances of LocalDeviceCatalogue. *)
EXTENDS LocalDeviceCatalogue

Device(id, name, kind, api, silent) ==
    [id |-> id, name |-> name, kind |-> kind, api |-> api, silent |-> silent]

\* Two cameras; on Linux a silent one, on Windows a DirectShow twin of the first.
\* Microphones and outputs run the code of Qt's cameras, so one kind shows it.
MCDevices == {Device(1, 2, "camera", "qt", FALSE), Device(2, 1, "camera", "qt", FALSE),
              Device(3, 3, "camera", "qt", TRUE), Device(4, 2, "camera", "dshow", FALSE)}

Environment(mode, linux, rescan) == [mode |-> mode, linux |-> linux, rescan |-> rescan]

MCEnvironments == {Environment("real", TRUE, "invoked"), Environment("real", TRUE, "notYet"),
                   Environment("real", TRUE, "permanent"),
                   Environment("real", FALSE, "permanent"),
                   Environment("fake", TRUE, "permanent"),
                   Environment("headless", TRUE, "permanent")}
=============================================================================

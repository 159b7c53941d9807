---------------------------- MODULE MCFontProbe ----------------------------
EXTENDS FontProbe

MCInstalled == <<"a", "b", "c", "d">>

\* Of a library that exits with -1, and of abort() without a crash report.
MCForeignCodes == {-1, 3}

MCCommandLines ==
    [family : {"", "a", "d", "other"}, outDir : {"writable", "unwritable"},
     stress : BOOLEAN, stressScan : BOOLEAN, stressMaxFamilies : {-1, 0, 1, 2, 3}]
=============================================================================

--------------------------- MODULE MCFirmwareBoot ---------------------------
\* FirmwareBoot with the log buffers to be tried - one that can be an MPU
\* region, and one that begins at the wrong address - and firmwares with
\* everything, with nothing, and with one of the two packages.
EXTENDS FirmwareBoot

MCLogBuffers == {[start |-> 2, size |-> 2], [start |-> 1, size |-> 2]}

MCRoms ==
    LET some == {{}, {"modules", "startup", "license", "secret", "dma"},
                 {"modules", "license"}, {"startup", "secret"}}
    IN  some \cup {r \cup {"irq"} : r \in some}

=============================================================================

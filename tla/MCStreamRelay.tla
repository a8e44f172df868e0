--------------------------- MODULE MCStreamRelay ---------------------------
(* Small instances of StreamRelay: short and long lines, a limit reached    *)
(* after a few lines, one unit of idle timeout.                             *)
EXTENDS StreamRelay

AllModes == {"live", "buffered"} \X BOOLEAN \cup {<<"nonstream", FALSE>>}
FairModes == {<<"live", FALSE>>, <<"live", TRUE>>, <<"buffered", TRUE>>,
              <<"nonstream", FALSE>>}
LiveIdle == {<<"live", TRUE>>}
Buffered == {<<"buffered", FALSE>>}
=============================================================================

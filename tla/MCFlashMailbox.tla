--------------------------- MODULE MCFlashMailbox ---------------------------
(* Instances of FlashMailbox for TLC: three of the four benchmark images,   *)
(* and the single image of piomc_rp2350.mojo.                              *)
EXTENDS FlashMailbox

MCLangs   == <<"mojo", "gcc", "rust">>
MCOneLang == <<"pio_multicore">>
=============================================================================

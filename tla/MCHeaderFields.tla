--------------------------- MODULE MCHeaderFields ---------------------------
(* Two names, one of them in two spellings.                                *)
EXTENDS HeaderFields

SmallSpellings == {"etag", "ETag", "via"}

LowerCase == [etag |-> "etag", ETag |-> "etag", via |-> "via"]

=============================================================================

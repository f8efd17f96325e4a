-------------------------- MODULE MCObjectCreator --------------------------
EXTENDS ObjectCreator, TLC

CONSTANTS v1, v2

\* v1 compresses to half a block; v2 does not compress.
MCLz4Size(v) == IF v = v1 THEN BlockSize \div 2 ELSE 0

\* 127 and 128 straddle the one-byte limit of a varint.
MCLBAs == {127, 128}
MCValues == {v1, v2}
=============================================================================

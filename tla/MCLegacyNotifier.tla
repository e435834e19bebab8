-------------------------- MODULE MCLegacyNotifier --------------------------
(* Two workers, a digest of two parts and a push to two devices, one of      *)
(* which has expired.                                                        *)
EXTENDS LegacyNotifier, TLC

CONSTANTS m1, m2, m3, w1, w2, d1, d2

MCChannel == m1 :> "matrix" @@ m2 :> "webpush" @@ m3 :> "sms"
MCParts == m1 :> 2 @@ m2 :> 1 @@ m3 :> 1
MCDevicesOf == m1 :> {} @@ m2 :> {d1, d2} @@ m3 :> {}
=============================================================================

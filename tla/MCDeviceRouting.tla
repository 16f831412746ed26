---------------------------- MODULE MCDeviceRouting ----------------------------
(* Two farmers; two frames of one LoRaWAN sensor with one uplink of one Bivocom router,
   or one of them with a reading that names a farmer or the placeholder. *)
EXTENDS DeviceRouting, TLC

CONSTANTS ann, bob, sensor, router, tag, f1, f2, b1, w1, w2

From(kind, serial, client) ==
    [kind |-> kind, serial |-> serial, client |-> client, metrics |-> TRUE]
Arrivals == (f1 :> From("lora", sensor, None)) @@ (f2 :> From("lora", sensor, None)) @@
            (b1 :> From("bivocom", router, None)) @@
            (w1 :> From("client", None, ann)) @@ (w2 :> From("client", None, Lora))
Together == {{f1, f2, b1}} \cup {{f, w} : f \in {f1, f2}, w \in {w1, w2}}
\* The two frames are alike.
Same  == Permutations({f1, f2})
Farms == (ann :> 1) @@ (bob :> 2)

NoSensor == [t \in Tags |-> None]
Mapped(z) == [t \in Tags |-> [zone |-> z, active |-> TRUE]]
\* Nothing yet; a router of ann whose tag has a zone of its own or the
\* device's; a sensor of ann.
Starts ==
    {[device  |-> [d \in Devices |-> None],
      mapping |-> [d \in Devices |-> NoSensor]]} \cup
    {[device  |-> [d \in Devices |->
                     IF d = 1 THEN [serial |-> router, owner |-> ann,
                                    zone |-> 1, active |-> TRUE]
                     ELSE None],
      mapping |-> [d \in Devices |-> IF d = 1 THEN Mapped(z) ELSE NoSensor]] :
        z \in {1, None}} \cup
    {[device  |-> [d \in Devices |->
                     IF d = 1 THEN [serial |-> sensor, owner |-> ann,
                                    zone |-> 1, active |-> TRUE]
                     ELSE None],
      mapping |-> [d \in Devices |-> NoSensor]]}

=============================================================================

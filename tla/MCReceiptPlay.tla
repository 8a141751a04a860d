--------------------------- MODULE MCReceiptPlay ---------------------------
(***************************************************************************)
(* Three players: one with a shot that can crit, a blow and a barrage, one *)
(* with a cluster, one with a shove and a burning shot.                    *)
(***************************************************************************)
EXTENDS ReceiptPlay

MCTeam == [p \in Player |-> p]
MCAllowance == [p \in Player |-> 1]

(* A generator of sixteen states and eight words, of full period.          *)
MCAdvance == [s \in RngState |-> (5 * s + 3) % 16]
MCOutput == [s \in RngState |-> s \div 2]

Ability(attack, strikes, damage, crit, chance, cap, shoves, burn) ==
  [attack |-> attack, strikes |-> strikes, damage |-> damage, crit |-> crit,
   chance |-> chance, cap |-> cap, shoves |-> shoves, burn |-> burn]

Precision == Ability("Projectile", 1, 1, 2, 1, 0, FALSE, 0)
Dagger    == Ability("Strike",     1, 1, 2, 1, 0, FALSE, 0)
Barrage   == Ability("Projectile", 2, 1, 1, 0, 0, FALSE, 0)
AntGlob   == Ability("Projectile", 1, 1, 1, 0, 1, FALSE, 0)
Thrust    == Ability("Strike",     1, 1, 1, 0, 0, TRUE,  0)
Fireball  == Ability("Projectile", 1, 2, 2, 0, 0, FALSE, 1)
Staff     == Ability("Projectile", 1, 1, 1, 0, 0, FALSE, 0)

MCKit ==
  (1 :> ("Basic" :> Precision @@ "BasicAlt" :> Dagger @@ "Trinket" :> Barrage)) @@
  (2 :> ("Basic" :> AntGlob   @@ "BasicAlt" :> Thrust @@ "Trinket" :> Staff)) @@
  (3 :> ("Basic" :> Fireball  @@ "BasicAlt" :> Thrust @@ "Trinket" :> Staff))

MCLines == {<<>>, <<1, 3>>, <<2, 3>>, <<3, 2>>}

=============================================================================

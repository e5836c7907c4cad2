SPECIFICATION StagesSpec
CONSTANTS
  Sessions = {s1, s2}
  s1 = s1 mk = mk rv = rv ap = ap
  cf1 = cf1 cf2 = cf2 r1 = r1 r2 = r2
  bond = bond saham = saham
  Users <- EirUsers
  Instruments = {bond, saham}
  Proposals = {p1}
  Reports = {d1}
  Workers = {w1}
  Rates = {r1, r2} NoRate = NoRate
  Cashflows = {cf1, cf2} NoCf = NoCf
  Solve <- MCSolve Length <- MCLength
  Klasifikasi <- MCKlas MethodFlag <- MCFlag Poci <- MCPoci Perms <- MCPerms
  Nobody = Nobody
  MaxRows = 3
  Instrumen = {bond} Fvtpl = {} Signers = {ra, rb, rc} NoOne = NoOne
  Overrides = {o1}
  OriginRating <- MCOrigin
  Grades = {8, 10, 17}
  Overdue = {0, 40} Proposed = {0}
  BulanLen = 1 MaxDay = 5 MaxHistory = 3 MaxDpd = 1 MaxInFlight = 2
  risk = risk alco = alco
  Deposito = {1, 2, 3} BukanDeposito = {4}
  Nasabah <- MCNasabah Bank <- MCBank Nominal <- MCNominal MataUang <- MCMataUang
  Kurs <- MCKurs LpsCoverage <- MCCoverage Tanggal = {0, 1} Periode <- MCPeriode
  LpsUsers = {risk, alco} Izin <- MCIzin Tiada = Tiada
  LpsIds = {1, 2} ReasonLengths = {29, 30}
  MaxLpsInFlight = 2
INVARIANT NoAutoCure
CHECK_DEADLOCK FALSE
